---- MODULE Spec2Model ----
(***************************************************************************)
(* DealsScannerPro.Scanner: the offer extraction pipeline.                 *)
(*                                                                         *)
(*   flyer scanners   scanners/netto_scanner.py (ScannerV2) and            *)
(*                    scanners/rema_scanner.py (RemaScanner): lines and    *)
(*                    font prices per page -> blocks -> offers (tilbud)    *)
(*   Scanner          services/scanner.py with services/offer_detector.py  *)
(*                    and services/confidence.py                           *)
(*   OpenAINormalizer services/openai_normalizer.py: the process-wide      *)
(*                    cache, normalize and normalize_batch                 *)
(*                                                                         *)
(* Line indices, start_idx and end_idx are 0-based as in the Python source;*)
(* a TLA+ sequence holds line i at position i + 1.  An Optional value is   *)
(* the empty sequence (None) or a one-element sequence.  In the flyer      *)
(* scanners money is whole kroner; in the services (detector, normalizer,  *)
(* confidence, Scanner) it is thousandths of a krone, so that rounding to  *)
(* two decimals does something.  Confidences are hundredths.               *)
(***************************************************************************)
EXTENDS Integers, Sequences, FiniteSets, TLC

VARIABLES
    \* ---- flyer scanners (ScannerV2 / RemaScanner) ----
    retailer,          \* which scanner class runs: "netto" | "rema" | "none"
    pdf,               \* per page: what _extract_text_with_prices returns
    all_lines,         \* scan(): all_lines
    all_font_prices,   \* scan(): all_font_prices
    line_to_page,      \* scan(): line_to_page, as a sequence (index i at i + 1)
    blocks,            \* scan(): blocks
    seen_products,     \* self._seen_products
    tilbud_raw,        \* scan(): tilbud_raw
    tilbud,            \* scan(): the returned "tilbud"
    block_i,           \* scan(): how many blocks the offer loop has taken
    fpc,               \* position of scan(): "idle" | "extract" | "blocks" | "offers" | "done"
    \* ---- OpenAINormalizer ----
    cache,             \* OpenAINormalizer._cache in insertion order: a sequence of [key, value]
    ncall,             \* the last call of normalize / normalize_batch: arguments, results, LM traffic
    watched,           \* an earlier normalize call kept for comparison: None or [key, result, live]
    \* ---- Scanner (services/scanner.py) ----
    has_client,        \* whether self.normalizer has OpenAI credentials
    document,          \* what analyze_pdf returns: per page the TextBlocks
    offer_blocks,      \* scan(): offer_blocks
    result,            \* scan(): result (the ScanResult)
    outcomes,          \* per offer block taken by the loop: "ok" | "raised"
    spc,               \* position of scan(): "idle" | "layout" | "detect" | "process" | "done" | "raised"
    \* ---- confidence.py called on its own ----
    conf_in,           \* the ConfidenceInput of the last calculate_confidence call, or None
    conf_out,          \* None or [overall, status]: its result and get_status_from_confidence of it
    \* ---- a second scan() of the same PDF ----
    first_scan,        \* None, or what the first scan() call returned
    scannet_tidspunkt, \* meta["scannet_tidspunkt"] of the last dict a flyer scanner returned (0: none yet)
    \* ---- _extract_text_with_prices on one page ----
    locator,           \* whose _extract_text_with_prices runs: "netto" | "rema" | "none"
    read_lines,        \* the lines of the page walked so far: [x, spans, line_index]
    cur_line,          \* None, or the line of the page being walked: [x, spans]
    span_i,            \* how many spans of cur_line the span loop has taken
    current_price_kr,  \* ScannerV2: current_price_kr, None or the kroner read
    current_price_kr_pos, \* ScannerV2: current_price_kr_pos
    current_price_kr_x, \* ScannerV2: current_price_kr_x
    line_index,        \* _extract_text_with_prices: line_index
    page_lines,        \* _extract_text_with_prices: lines
    page_font_prices,  \* _extract_text_with_prices: font_prices
    lpc,               \* position of _extract_text_with_prices: "idle" | "walk" | "returned"
    \* ---- _find_product_blocks on the lines of one page ----
    col_retailer,      \* whose _find_product_blocks runs: "netto" | "rema" | "none"
    page_width,        \* width of the page in points (0: no page)
    col_lines,         \* lines: [text, x], x in hundredths of a point
    col_font_prices,   \* font_prices: [value, line_index, x]
    col_blocks,        \* None, or the blocks _find_product_blocks returned
    \* ---- generate_sku_key and parse_sku_key on one set of fields ----
    sku_fields,        \* None, or the arguments of generate_sku_key
    sku_key,           \* None, or what generate_sku_key returned or raised
    sku_parsed,        \* None, or what parse_sku_key returned for the key
    \* ---- calculate_unit_price on one offer, its amount in each unit of its base ----
    up_offer,          \* None, or [price_value, deposit_value, amount, larger, pack_count]: the amount in hundredths of the larger unit
    up_results,        \* the UnitPrice calculate_unit_price returned for the amount in a unit, for the units tried
    \* ---- detect_store and _detect_retailer on one PDF ----
    store_doc,         \* None, or the PDF: [readable, pages], a page the text get_text() gives
    store_detected,    \* None, or what detect_store returned
    retailer_detected, \* None, or what _detect_retailer returned for the first page
    \* ---- the dates of "uge NN" by each of the week computations ----
    week_year,         \* the year: datetime.now().year, or the year of the filename (0: none)
    week_num,          \* the week number read from the text or the filename
    week_dates,        \* the dates returned, by the function that computed them
    \* ---- CategoryService and its class-level cache ----
    cat_cache,         \* CategoryService._cache
    cat_cache_timestamp, \* CategoryService._cache_timestamp
    cat_now,           \* time.time() (0: the service is not in use)
    cat_call,          \* None, or the last get_categories call: its argument, the cache and the time it found, what it did and returned
    \* ---- process_tilbudsavis on one Event Grid event ----
    event,             \* None, or the event: [event_type, url, subject]
    ppc,               \* position of process_tilbudsavis: "idle" | "start" | "download" | "scan" | "upload" | "returned"
    parsed,            \* None, or what parse_filename returned: [butik, gyldig_fra, gyldig_til]
    scan_result,       \* None, or the ScanResult of scan_pdf_v2: [offers, retailer, scanner_version]
    success,           \* None, or what upload_to_api_v2 did: "True" | "False" | "raise"
    moves,             \* the calls of move_blob: [destination, metadata]
    \* ---- the loop of _find_product_blocks, line by line ----
    cl_retailer,       \* whose _find_product_blocks runs: "netto" | "rema" | "none"
    cl_lines,          \* lines: [text, x], x in hundredths of a point
    cl_font_price_lines, \* the keys of font_price_lines
    cl_i,              \* i of "for i, line in enumerate(lines)"
    cl_current_block_start, \* current_block_start
    cl_current_block_x, \* current_block_x (0 for None)
    cl_blocks,         \* blocks
    cl_pc,             \* position of _find_product_blocks: "idle" | "loop" | "returned"
    \* ---- upload_to_api_v2 on one scan result ----
    ul_max_retries,    \* max_retries
    ul_configured,     \* API_KEY is set and the requests module is there
    ul_attempt,        \* attempt of "for attempt in range(max_retries)"
    ul_v2_posts,       \* what each POST to /api/management/upload/v2 gave, in order
    ul_v1_posts,       \* what each POST to /api/management/upload gave, in order
    ul_returned,       \* None, or what upload_to_api_v2 returned
    ul_pc,             \* position of upload_to_api_v2: "idle" | "start" | "v2" | "v1" | "returned"
    \* ---- one OpenAINormalizer with its own max_cache_size ----
    normalizer,        \* None, or the OpenAINormalizer the calls go through
    \* ---- Scanner.scan with the crops of its offers ----
    cr_len_doc,        \* len(doc) of the PDF in _pdf_content
    cr_enable_cropping, \* enable_cropping
    cr_has_pymupdf,    \* HAS_PYMUPDF
    cr_has_blob,       \* the cropper has a blob_service_client
    cr_document,       \* document.pages: the page_number of each PageLayout
    cr_offer_blocks,   \* offer_blocks: [page]
    cr_offers,         \* per processed block: [trace_page, crop], crop None or the CropResult
    cr_pc              \* position of scan: "idle" | "start" | "analyzed" | "detected" | "returned"

flyerVars == <<retailer, pdf, all_lines, all_font_prices, line_to_page, blocks,
               seen_products, tilbud_raw, tilbud, block_i, fpc>>
normVars == <<cache, ncall, watched>>
scanVars == <<has_client, document, offer_blocks, result, outcomes, spc>>
confVars == <<conf_in, conf_out>>

rescanVars == <<first_scan, scannet_tidspunkt>>
locatorVars == <<locator, read_lines, cur_line, span_i, current_price_kr,
                 current_price_kr_pos, current_price_kr_x, line_index,
                 page_lines, page_font_prices, lpc>>
columnsVars == <<col_retailer, page_width, col_lines, col_font_prices,
                 col_blocks>>
skuVars == <<sku_fields, sku_key, sku_parsed>>
unitpriceVars == <<up_offer, up_results>>
storeVars == <<store_doc, store_detected, retailer_detected>>
weekVars == <<week_year, week_num, week_dates>>
categoryVars == <<cat_cache, cat_cache_timestamp, cat_now, cat_call>>
triggerVars == <<event, ppc, parsed, scan_result, success, moves>>
clusterVars == <<cl_retailer, cl_lines, cl_font_price_lines, cl_i,
                 cl_current_block_start, cl_current_block_x, cl_blocks, cl_pc>>
uploadVars == <<ul_max_retries, ul_configured, ul_attempt, ul_v2_posts,
                ul_v1_posts, ul_returned, ul_pc>>
sizedVars == <<normalizer>>
cropVars == <<cr_len_doc, cr_enable_cropping, cr_has_pymupdf, cr_has_blob,
              cr_document, cr_offer_blocks, cr_offers, cr_pc>>
utilVars == <<rescanVars, locatorVars, columnsVars, skuVars, unitpriceVars,
              storeVars, weekVars, categoryVars, triggerVars, clusterVars,
              uploadVars, sizedVars, cropVars>>

\* all of utilVars but one group
besidesRescanVars == <<locatorVars, columnsVars, skuVars, unitpriceVars,
                       storeVars, weekVars, categoryVars, triggerVars,
                       clusterVars, uploadVars, sizedVars, cropVars>>
besidesLocatorVars == <<rescanVars, columnsVars, skuVars, unitpriceVars,
                        storeVars, weekVars, categoryVars, triggerVars,
                        clusterVars, uploadVars, sizedVars, cropVars>>
besidesColumnsVars == <<rescanVars, locatorVars, skuVars, unitpriceVars,
                        storeVars, weekVars, categoryVars, triggerVars,
                        clusterVars, uploadVars, sizedVars, cropVars>>
besidesSkuVars == <<rescanVars, locatorVars, columnsVars, unitpriceVars,
                    storeVars, weekVars, categoryVars, triggerVars,
                    clusterVars, uploadVars, sizedVars, cropVars>>
besidesUnitpriceVars == <<rescanVars, locatorVars, columnsVars, skuVars,
                          storeVars, weekVars, categoryVars, triggerVars,
                          clusterVars, uploadVars, sizedVars, cropVars>>
besidesStoreVars == <<rescanVars, locatorVars, columnsVars, skuVars,
                      unitpriceVars, weekVars, categoryVars, triggerVars,
                      clusterVars, uploadVars, sizedVars, cropVars>>
besidesWeekVars == <<rescanVars, locatorVars, columnsVars, skuVars,
                     unitpriceVars, storeVars, categoryVars, triggerVars,
                     clusterVars, uploadVars, sizedVars, cropVars>>
besidesCategoryVars == <<rescanVars, locatorVars, columnsVars, skuVars,
                         unitpriceVars, storeVars, weekVars, triggerVars,
                         clusterVars, uploadVars, sizedVars, cropVars>>
besidesTriggerVars == <<rescanVars, locatorVars, columnsVars, skuVars,
                        unitpriceVars, storeVars, weekVars, categoryVars,
                        clusterVars, uploadVars, sizedVars, cropVars>>
besidesClusterVars == <<rescanVars, locatorVars, columnsVars, skuVars,
                        unitpriceVars, storeVars, weekVars, categoryVars,
                        triggerVars, uploadVars, sizedVars, cropVars>>
besidesUploadVars == <<rescanVars, locatorVars, columnsVars, skuVars,
                       unitpriceVars, storeVars, weekVars, categoryVars,
                       triggerVars, clusterVars, sizedVars, cropVars>>
besidesSizedVars == <<rescanVars, locatorVars, columnsVars, skuVars,
                      unitpriceVars, storeVars, weekVars, categoryVars,
                      triggerVars, clusterVars, uploadVars, cropVars>>
besidesCropVars == <<rescanVars, locatorVars, columnsVars, skuVars,
                     unitpriceVars, storeVars, weekVars, categoryVars,
                     triggerVars, clusterVars, uploadVars, sizedVars>>

vars == <<flyerVars, normVars, scanVars, confVars, utilVars>>

----------------------------------------------------------------------------
(* Optional values and small helpers                                        *)

None == <<>>
Some(v) == <<v>>
IsNone(o) == o = <<>>
Get(o) == o[1]

Min(a, b) == IF a <= b THEN a ELSE b
Max(a, b) == IF a >= b THEN a ELSE b
Abs(a) == IF a >= 0 THEN a ELSE 0 - a

RECURSIVE SelectIdx(_, _, _)
\* the indices i..n that satisfy keep, ascending
SelectIdx(i, n, keep) ==
    IF i > n THEN <<>>
    ELSE (IF i \in keep THEN <<i>> ELSE <<>>) \o SelectIdx(i + 1, n, keep)

----------------------------------------------------------------------------
(* Bounds of the model                                                      *)

MaxLines == 3          \* text lines in a flyer
MaxAnchors == 2        \* font prices in a flyer

Pages == {1, 2}        \* page numbers of the flyer
Texts == {"Cola", "COLA", "Spar 5"}   \* line texts (after _clean_text)
Xs == {1000, 6000}     \* left x of a line, in hundredths of a point
Values == {10, 20}     \* kroner values of the font prices

----------------------------------------------------------------------------
(* Text tables: what the string operations of the source give on the texts   *)
(* of the model                                                              *)

\* str.strip()
Strip(t) ==
    CASE t = " Cola " -> "Cola"
      [] t = " " -> ""
      [] OTHER -> t

\* str.lower()
Lower(t) ==
    CASE t \in {"Cola", "COLA"} -> "cola"
      [] t = " Cola " -> " cola "
      [] t = "Spar 5" -> "spar 5"
      [] t = "Cola 25,-" -> "cola 25,-"
      [] t = "Coca-Cola" -> "coca-cola"
      [] t = "Drikkevarer" -> "drikkevarer"
      [] t = "Øl & Vin" -> "øl & vin"
      [] t = "Andet" -> "andet"
      [] t = "Sodavand" -> "sodavand"
      [] t = "Milliliter" -> "milliliter"
      [] t = "NONE" -> "none"
      [] OTHER -> t

\* str.upper()
Upper(t) ==
    CASE t = "bottle" -> "BOTTLE"
      [] OTHER -> t

\* str.lower().strip()
LowerStrip(t) == Lower(Strip(t))

\* len(text)
StrLen(t) ==
    CASE t \in {"Cola", "COLA", "25,-", "null"} -> 4
      [] t = "Spar 5" -> 6
      [] t = " Cola " -> 6
      [] t = "2,-" -> 3
      [] t \in {"15", "95", ".-", ",-"} -> 2
      [] t = "1234" -> 4
      [] t = "49,-" -> 4
      [] t = "29,95" -> 5
      [] t = "øl" -> 2
      [] t = "Cola 25,-" -> 9
      [] t = "Coca-Cola" -> 9
      [] OTHER -> 0

\* len(re.findall(r'[a-zæøåA-ZÆØÅ]', text))
Letters(t) ==
    CASE t \in {"Cola", "COLA", "Spar 5", "Cola 25,-", " Cola "} -> 4
      [] t = "øl" -> 2
      [] t = "Coca-Cola" -> 8
      [] OTHER -> 0

\* re.match(r'^[\d.,\s]+$', text)
OnlyDigits(t) == FALSE

\* re.match(r'^[A-Z\s!]+$', text)
IsAllUpper(t) == t = "COLA"

\* re.match(r'^([A-ZÆØÅ][a-zæøå]+)', text): the capitalized word a text starts with
CapWordAtStart(t) ==
    CASE t \in {"Cola", "Cola 25,-"} -> <<"Cola">>
      [] t = "Spar 5" -> <<"Spar">>
      [] t = "Coca-Cola" -> <<"Coca">>
      [] OTHER -> <<>>

\* re.search(r'[A-ZÆØÅ][a-zæøå]+', text)
HasCapWord(t) == t \in {"Cola", "Cola 25,-", "Spar 5", "Coca-Cola", " Cola "}

\* 'kw in text_lower'
HasKeyword(t, kw) ==
    CASE kw = "cola" -> Lower(t) \in {"cola", "cola 25,-", " cola ", "coca-cola"}
      [] kw = "øl" -> Lower(t) = "øl"
      [] OTHER -> FALSE

\* the first of OfferDetector.PRICE_PATTERNS that matches: the price in thousandths of
\* a krone, None when none matches
PriceMatch(t) ==
    CASE t \in {"25,-", "Cola 25,-"} -> <<25000>>
      [] t = "2,-" -> <<2000>>
      [] OTHER -> <<>>

\* _is_skip_line: '^spar\s' is in SKIP_PATTERNS of both flyer scanners
IsSkipLine(t) == LowerStrip(t) = "spar 5"

----------------------------------------------------------------------------
(* The flyer as _extract_text_with_prices returns it, page by page           *)

\* One page: its lines and its font prices, line_index counted from 0 on the page
PageOfPdf(n, tx, xs, fp, pg, p) ==
    LET idx == SelectIdx(1, n, {i \in 1..n : pg[i] = p})
        cand == [k \in 1..Len(idx) |->
                    [value |-> fp[idx[k]], line_index |-> k - 1, x |-> xs[idx[k]]]]
    IN  [lines |-> [k \in 1..Len(idx) |-> [text |-> tx[idx[k]], x |-> xs[idx[k]]]],
         font_prices |-> SelectSeq(cand, LAMBDA a : a.value # 0)]

MkPdf(n, tx, xs, fp, pg) ==
    [p \in 1..Cardinality(Pages) |-> PageOfPdf(n, tx, xs, fp, pg, p)]

----------------------------------------------------------------------------
(* ScannerV2.scan / RemaScanner.scan: the page loop                          *)

RECURSIVE ExtractPages(_, _, _)
\* acc = [lines, font_prices, line_to_page]; page_num runs over selected_pages
ExtractPages(doc, page_num, acc) ==
    IF page_num > Len(doc) THEN acc
    ELSE LET lines == doc[page_num].lines
             font_prices == doc[page_num].font_prices
             start_idx == Len(acc.lines)
         IN  IF lines = <<>>
             THEN ExtractPages(doc, page_num + 1, acc)
             ELSE ExtractPages(doc, page_num + 1,
                    [lines |-> acc.lines \o lines,
                     font_prices |-> acc.font_prices \o
                        [k \in 1..Len(font_prices) |->
                            [font_prices[k] EXCEPT !.line_index = @ + start_idx]],
                     line_to_page |-> acc.line_to_page \o
                        [k \in 1..Len(lines) |-> page_num]])

----------------------------------------------------------------------------
(* _find_product_blocks                                                      *)

\* 'abs(x1 - x2) <= tolerance'
Mutant_is_same_column_le(x1, x2) == Abs(x1 - x2) <= 5000

\* a tolerance of 500 points
Mutant_is_same_column(x1, x2) == Abs(x1 - x2) < 50000

\* tolerance=50, in points; x in hundredths of a point
is_same_column(x1, x2) == Abs(x1 - x2) < 5000

\* start_new without 'if i > 0 and (i - 1) in font_price_lines'
Mutant_StartNew(r, i, line_x, st, font_price_lines) ==
    IF IsNone(st.current_block_start) THEN TRUE
    ELSE IF r = "netto" /\ i \in font_price_lines THEN FALSE
    ELSE ~is_same_column(line_x, st.current_block_x)

\* the 'elif i in font_price_lines: pass' branch exists in ScannerV2 only
StartNew(r, i, line_x, st, font_price_lines) ==
    LET by_column ==
            IF IsNone(st.current_block_start) THEN TRUE
            ELSE IF r = "netto" /\ i \in font_price_lines THEN FALSE
            ELSE ~is_same_column(line_x, st.current_block_x)
    IN  by_column \/ (i > 0 /\ (i - 1) \in font_price_lines)

MkBlock(start, end, l2p, x) ==
    [start_idx |-> start, end_idx |-> end, page |-> l2p[start + 1], x |-> x]

RECURSIVE FindBlocksLoop(_, _, _, _, _, _)
FindBlocksLoop(r, i, lines, l2p, font_price_lines, st) ==
    IF i >= Len(lines)
    THEN IF IsNone(st.current_block_start) THEN st.blocks
         ELSE Append(st.blocks,
                MkBlock(Get(st.current_block_start), Len(lines) - 1, l2p, st.current_block_x))
    ELSE LET line == lines[i + 1] IN
         IF IsSkipLine(line.text)
         THEN FindBlocksLoop(r, i + 1, lines, l2p, font_price_lines, st)
         ELSE LET start_new == StartNew(r, i, line.x, st, font_price_lines)
                  closed == IF start_new /\ ~IsNone(st.current_block_start)
                            THEN Append(st.blocks,
                                   MkBlock(Get(st.current_block_start), i - 1, l2p,
                                           st.current_block_x))
                            ELSE st.blocks
              IN  FindBlocksLoop(r, i + 1, lines, l2p, font_price_lines,
                    IF start_new
                    THEN [blocks |-> closed, current_block_start |-> Some(i),
                          current_block_x |-> line.x]
                    ELSE [st EXCEPT !.blocks = closed])

_find_product_blocks(r, lines, l2p, font_prices) ==
    FindBlocksLoop(r, 0, lines, l2p,
                   {font_prices[k].line_index : k \in 1..Len(font_prices)},
                   [blocks |-> <<>>, current_block_start |-> None, current_block_x |-> 0])

----------------------------------------------------------------------------
(* _block_to_offer and what it calls                                         *)

RECURSIVE MergeLoop(_, _, _, _)
\* _merge_product_name: at most 4 non-skip lines of [i, stop)
MergeLoop(lines, i, stop, name_parts) ==
    IF i >= stop \/ Len(name_parts) >= 4 THEN name_parts
    ELSE MergeLoop(lines, i + 1, stop,
            IF IsSkipLine(lines[i + 1].text) THEN name_parts
            ELSE Append(name_parts, lines[i + 1].text))

_merge_product_name(lines, start_idx, end_idx) ==
    MergeLoop(lines, start_idx, Min(end_idx + 1, Len(lines)), <<>>)

\* produkt.lower().strip() of the joined name
ProduktLower(produkt) == [k \in 1..Len(produkt) |-> LowerStrip(produkt[k])]

RECURSIVE SumLen(_, _)
SumLen(produkt, k) == IF k > Len(produkt) THEN 0 ELSE StrLen(produkt[k]) + SumLen(produkt, k + 1)
\* len(produkt): the parts joined by single spaces
ProduktLen(produkt) ==
    IF produkt = <<>> THEN 0 ELSE SumLen(produkt, 1) + Len(produkt) - 1

RECURSIVE SumLetters(_, _)
\* the letters of the joined parts
SumLetters(produkt, k) ==
    IF k > Len(produkt) THEN 0 ELSE Letters(produkt[k]) + SumLetters(produkt, k + 1)

ProduktAllUpper(produkt) == \A k \in 1..Len(produkt) : IsAllUpper(produkt[k])

RECURSIVE FirstAnchor(_, _, _, _)
\* 'for fp in font_prices: if block_start <= fp.line_index <= block_end + 2: ... break'
\* the position in font_prices of the anchor taken, 0 when none is
FirstAnchor(font_prices, k, block_start, block_end) ==
    IF k > Len(font_prices) THEN 0
    ELSE IF block_start <= font_prices[k].line_index
            /\ font_prices[k].line_index <= block_end + 2
         THEN k
         ELSE FirstAnchor(font_prices, k + 1, block_start, block_end)

AnchorOfBlock(font_prices, block) ==
    FirstAnchor(font_prices, 1, block.start_idx, block.end_idx)

\* 'total_pris or 0'
PrisOr0(total_pris) == IF IsNone(total_pris) \/ Get(total_pris) = 0 THEN 0 ELSE Get(total_pris)

\* the key of _seen_products: f"{produkt.lower().strip()}_{pris}"
DupKey(produkt, pris) == <<ProduktLower(produkt), pris>>

\* _check_duplicate: the returned dict and the dict _seen_products afterwards
_check_duplicate(seen, produkt, pris) ==
    LET key == DupKey(produkt, pris) IN
    IF key \in DOMAIN seen
    THEN [info |-> [is_duplicate |-> TRUE, first_seen_page |-> seen[key].first_page],
          seen |-> [seen EXCEPT ![key].count = @ + 1]]
    ELSE [info |-> [is_duplicate |-> FALSE, first_seen_page |-> None],
          seen |-> [k \in DOMAIN seen \cup {key} |->
                       IF k = key THEN [count |-> 1, first_page |-> None] ELSE seen[k]]]

\* _block_to_offer, lines 739-743: the duplicate info of the offer and _seen_products
DupInfoOfBlock(seen, produkt, total_pris, block) ==
    LET chk == _check_duplicate(seen, produkt, PrisOr0(total_pris)) IN
    IF chk.info.is_duplicate
    THEN [info |-> [chk.info EXCEPT !.first_seen_page = Some(block.page)], seen |-> chk.seen]
    ELSE [info |-> chk.info,
          seen |-> [chk.seen EXCEPT ![DupKey(produkt, PrisOr0(total_pris))].first_page =
                                        Some(block.page)]]

\* _calculate_confidence, in hundredths; the texts of the model carry no quantity
\* and no unit price, and their category is not 'Andet'
_calculate_confidence(r, produkt, total_pris) ==
    LET no_price == IsNone(total_pris) \/ Get(total_pris) = 0
        len == ProduktLen(produkt)
        score == 100
                 - (IF ~no_price THEN 0
                    ELSE IF r = "netto" THEN 40
                    ELSE IF len >= 10 THEN 20 ELSE 30)
                 - (IF len < 3 THEN 30 ELSE 0)
                 - (IF r = "netto" THEN 10 ELSE 5)
                 - (IF r = "netto" THEN 10 ELSE 5)
                 - (IF len < 5 THEN 20 ELSE 0)
    IN  Max(0, Min(100, score))

\* _is_valid_product, the checks that the texts of the model can meet
_is_valid_product(r, offer) ==
    LET len == ProduktLen(offer.produkt)
        has_price == ~IsNone(offer.total_pris)
        falsy_price == IsNone(offer.total_pris) \/ Get(offer.total_pris) = 0
    IN  /\ len >= 3
        /\ ~(ProduktAllUpper(offer.produkt) /\ len > 5)
        /\ IF r = "netto"
           THEN has_price \/ (offer.konfidens >= 70 /\ len >= 10)
           ELSE /\ ~(offer.konfidens < 50 /\ falsy_price)
                /\ ~(len < 5 /\ falsy_price)

\* _block_to_offer: None, or the offer together with _seen_products afterwards
_block_to_offer(r, seen, block, lines, font_prices, bi) ==
    LET produkt == _merge_product_name(lines, block.start_idx,
                                       Min(block.end_idx, block.start_idx + 5))
        k == AnchorOfBlock(font_prices, block)
        total_pris == IF k = 0 THEN None ELSE Some(font_prices[k].value)
        dup == DupInfoOfBlock(seen, produkt, total_pris, block)
    IN  IF ProduktLen(produkt) < 2
        THEN [offer |-> None, seen |-> seen]
        ELSE [offer |-> Some([produkt |-> produkt,
                              total_pris |-> total_pris,
                              side |-> block.page,
                              er_duplikat |-> dup.info.is_duplicate,
                              foerste_side |-> dup.info.first_seen_page,
                              konfidens |-> _calculate_confidence(r, produkt, total_pris),
                              block |-> bi,
                              anchor |-> k]),
              seen |-> dup.seen]

----------------------------------------------------------------------------
(* OpenAINormalizer: cache key, cache, GPT and rule-based normalization       *)
(*                                                                           *)
(* A product text is a sequence of text parts (the parts joined by spaces).  *)
(* A NormalizedProduct is a record of the fields the pipeline reads:         *)
(* brand_norm, product_norm, category, net_amount_value, net_amount_unit,    *)
(* container_type, confidence.  No text of the model makes the rules find a  *)
(* variant, a pack count, a deposit or a comment, and the replies of the     *)
(* model carry none.                                                         *)

MaxCacheSize == 2      \* max_cache_size (1000 by default in the source)

\* a normalizer instance: credentials present, enable_cache, max_cache_size
Insts == [has_client : BOOLEAN, enable_cache : BOOLEAN, max_cache_size : {MaxCacheSize}]

\* f"{price:.2f}": thousandths of a krone to hundredths (no price of the model is a tie)
Round2(price) == (price + 5) \div 10

\* _get_cache_key: 'if price:' is false for None and for 0
_get_cache_key(product_text, price) ==
    <<ProduktLower(product_text),
      IF IsNone(price) \/ Get(price) = 0 THEN None ELSE Some(Round2(Get(price)))>>

CacheKeys(c) == { c[k].key : k \in 1..Len(c) }

\* self._cache.get(cache_key)
CacheGet(c, cache_key) ==
    IF cache_key \in CacheKeys(c)
    THEN Some(c[CHOOSE k \in 1..Len(c) : c[k].key = cache_key].value)
    ELSE None

\* _get_from_cache that finds nothing
Mutant_get_from_cache(inst, c, cache_key) == None

\* _get_from_cache
_get_from_cache(inst, c, cache_key) ==
    IF ~inst.enable_cache THEN None ELSE CacheGet(c, cache_key)

\* _add_to_cache: when full, the first max_cache_size // 2 keys go; a dict keeps the
\* position of a key that is assigned again
_add_to_cache(inst, c, cache_key, product) ==
    IF ~inst.enable_cache THEN c
    ELSE LET trimmed == IF Len(c) >= inst.max_cache_size
                        THEN SubSeq(c, (inst.max_cache_size \div 2) + 1, Len(c))
                        ELSE c
             entry == [key |-> cache_key, value |-> product]
         IN  IF cache_key \in CacheKeys(trimmed)
             THEN [k \in 1..Len(trimmed) |->
                     IF trimmed[k].key = cache_key THEN entry ELSE trimmed[k]]
             ELSE Append(trimmed, entry)

\* the brand regex of _normalize_with_rules: one or two capitalized words at the start
RulesBrand(product_text) ==
    IF product_text = <<>> \/ IsNone(CapWordAtStart(product_text[1])) THEN None
    ELSE LET w1 == Get(CapWordAtStart(product_text[1])) IN
         IF /\ w1 = product_text[1]
            /\ Len(product_text) >= 2
            /\ ~IsNone(CapWordAtStart(product_text[2]))
         THEN Some(<<w1, Get(CapWordAtStart(product_text[2]))>>)
         ELSE Some(<<w1>>)

\* _detect_category with the keywords of _detect_category_fallback: the category with
\* the most keywords in the text, the first of the dict on a draw
_detect_category(product_text) ==
    IF \E k \in 1..Len(product_text) : HasKeyword(product_text[k], "øl") THEN "Øl & Vin"
    ELSE IF \E k \in 1..Len(product_text) : HasKeyword(product_text[k], "cola")
         THEN "Drikkevarer"
         ELSE "Andet"

\* _normalize_with_rules that lower-cases the product name
Mutant_normalize_with_rules(product_text) ==
    [brand_norm |-> RulesBrand(product_text),
     product_norm |-> ProduktLower(product_text),
     category |-> _detect_category(product_text),
     net_amount_value |-> None,
     net_amount_unit |-> None,
     container_type |-> None,
     confidence |-> 50]

\* _normalize_with_rules
_normalize_with_rules(product_text) ==
    [brand_norm |-> RulesBrand(product_text),
     product_norm |-> product_text,
     category |-> _detect_category(product_text),
     net_amount_value |-> None,
     net_amount_unit |-> None,
     container_type |-> None,
     confidence |-> 50]

\* _clean_string
_clean_string(value) ==
    IF IsNone(value) THEN None
    ELSE IF Strip(Get(value)) = "" \/ LowerStrip(Get(value)) = "null" THEN None
         ELSE Some(Strip(Get(value)))

\* get_categories(): the names category_service.py falls back to
ValidCategories == {"Drikkevarer", "Øl & Vin", "Andet"}

\* _validate_category
_validate_category(category) ==
    IF IsNone(category) \/ Get(category) = "" THEN "Andet"
    ELSE IF \E v \in ValidCategories : Lower(v) = Lower(Get(category))
         THEN CHOOSE v \in ValidCategories : Lower(v) = Lower(Get(category))
         ELSE "Andet"

\* _normalize_unit
_normalize_unit(unit) ==
    IF IsNone(unit) \/ Get(unit) = "" THEN None
    ELSE LET u == LowerStrip(Get(unit)) IN
         Some(CASE u = "milliliter" -> "ml"
                [] u = "liter" -> "l"
                [] u = "gram" -> "g"
                [] OTHER -> u)

\* CONTAINER_TYPES
ContainerTypes == {"CAN", "BOTTLE", "BAG", "TRAY", "BOX", "JAR", "TUBE", "NONE"}

\* _validate_container
_validate_container(container) ==
    IF IsNone(container) \/ Get(container) = "" THEN None
    ELSE IF Upper(Get(container)) \in ContainerTypes /\ Upper(Get(container)) # "NONE"
         THEN Some(Upper(Get(container)))
         ELSE None

\* The JSON objects the language model answers with in the model
ReplyFull ==
    [brand_norm |-> Some("Coca-Cola"), product_norm |-> Some(" Cola "),
     category |-> Some("drikkevarer"), net_amount_value |-> Some(1500),
     net_amount_unit |-> Some("Milliliter"), container_type |-> Some("bottle")]
ReplyBare ==
    [brand_norm |-> Some("null"), product_norm |-> None,
     category |-> Some("Sodavand"), net_amount_value |-> None,
     net_amount_unit |-> None, container_type |-> Some("NONE")]
GptReplies == {ReplyFull, ReplyBare}

\* NormalizedProduct(...) as _normalize_with_gpt (confidence 0.9) and
\* _normalize_batch_gpt (0.85) build it from a reply object
ProductOfReply(data, product_text, confidence) ==
    [brand_norm |-> IF IsNone(_clean_string(data.brand_norm)) THEN None
                    ELSE Some(<<Get(_clean_string(data.brand_norm))>>),
     product_norm |-> IF IsNone(_clean_string(data.product_norm)) THEN product_text
                      ELSE <<Get(_clean_string(data.product_norm))>>,
     category |-> _validate_category(data.category),
     net_amount_value |-> data.net_amount_value,
     net_amount_unit |-> _normalize_unit(data.net_amount_unit),
     container_type |-> _validate_container(data.container_type),
     confidence |-> confidence]

\* What one chat.completions.create call can do: raise (a timeout too), answer text
\* that is no JSON, answer JSON that is no object, answer an object
LmOutcomes ==
    { [kind |-> k, data |-> None] : k \in {"raises", "invalid_json", "not_object"} }
    \cup { [kind |-> "object", data |-> Some(r)] : r \in GptReplies }

\* _normalize_with_gpt: the product, or None where the source raises
_normalize_with_gpt(product_text, lm) ==
    IF lm.kind = "object" THEN Some(ProductOfReply(Get(lm.data), product_text, 90))
    ELSE None

\* normalize: the result, the cache afterwards, the keys that left the cache, and what
\* happened with the LM
normalize(inst, c, product_text, price, lm) ==
    LET cache_key == _get_cache_key(product_text, price)
        cached == _get_from_cache(inst, c, cache_key)
    IN  IF ~IsNone(cached)
        THEN [result |-> Get(cached), cache |-> c, evicted |-> {},
              lm_called |-> FALSE, lm_failed |-> FALSE]
        ELSE LET gpt == IF inst.has_client THEN _normalize_with_gpt(product_text, lm)
                        ELSE None
                 res == IF IsNone(gpt) THEN _normalize_with_rules(product_text)
                        ELSE Get(gpt)
             IN  [result |-> res,
                  cache |-> _add_to_cache(inst, c, cache_key, res),
                  evicted |-> CacheKeys(c) \ CacheKeys(_add_to_cache(inst, c, cache_key, res)),
                  lm_called |-> inst.has_client,
                  lm_failed |-> inst.has_client /\ IsNone(gpt)]

----------------------------------------------------------------------------
(* normalize_batch                                                           *)

MaxBatch == 2          \* products in one normalize_batch call

RulesFor(batch_products) ==
    [k \in 1..Len(batch_products) |-> _normalize_with_rules(batch_products[k])]

RECURSIVE ConvertItems(_, _, _, _)
\* 'for j, item in enumerate(batch_data)': item.get raises on an item that is no object
ConvertItems(batch_data, j, batch_products, acc) ==
    IF j >= Len(batch_data) THEN [raised |-> FALSE, results |-> acc]
    ELSE IF j >= Len(batch_products)
         THEN ConvertItems(batch_data, j + 1, batch_products, acc)
         ELSE IF IsNone(batch_data[j + 1])
              THEN [raised |-> TRUE, results |-> acc]
              ELSE ConvertItems(batch_data, j + 1, batch_products,
                      Append(acc, ProductOfReply(Get(batch_data[j + 1]),
                                                 batch_products[j + 1], 85)))

RECURSIVE FillMissing(_, _, _)
\* 'while len(all_results) < i + len(batch_products)'
FillMissing(all_results, i, batch_products) ==
    IF Len(all_results) >= i + Len(batch_products) THEN all_results
    ELSE FillMissing(
            Append(all_results,
                   _normalize_with_rules(batch_products[Len(all_results) - i + 1])),
            i, batch_products)

RECURSIVE BatchLoop(_, _, _, _, _)
\* _normalize_batch_gpt: 'for i in range(0, len(products), batch_size)', batch_size > 0;
\* replies[b] is what the LM does on the call for batch number b
BatchLoop(products, batch_size, replies, i, all_results) ==
    IF i >= Len(products) THEN all_results
    ELSE LET batch_products == SubSeq(products, i + 1, Min(i + batch_size, Len(products)))
             reply == replies[(i \div batch_size) + 1]
             conv == ConvertItems(reply.items, 0, batch_products, all_results)
             after == IF reply.kind # "list" THEN all_results \o RulesFor(batch_products)
                      ELSE IF conv.raised THEN conv.results \o RulesFor(batch_products)
                      ELSE FillMissing(conv.results, i, batch_products)
         IN  BatchLoop(products, batch_size, replies, i + batch_size, after)

\* the number of LM calls _normalize_batch_gpt makes
BatchCount(n, batch_size) == (n + batch_size - 1) \div batch_size

_normalize_batch_gpt(products, batch_size, replies) ==
    BatchLoop(products, batch_size, replies, 0, <<>>)

RECURSIVE SequentialLoop(_, _, _, _, _, _)
\* normalize_batch, 'for product_text, price in zip(products, prices)'
SequentialLoop(inst, products, prices, lms, k, st) ==
    IF k > Min(Len(products), Len(prices)) THEN st
    ELSE LET r == normalize(inst, st.cache, products[k], prices[k], lms[k]) IN
         SequentialLoop(inst, products, prices, lms, k + 1,
            [results |-> Append(st.results, r.result),
             cache |-> r.cache,
             evicted |-> st.evicted \cup r.evicted,
             lm_sent |-> IF r.lm_called THEN st.lm_sent \cup {k} ELSE st.lm_sent])

\* whether normalize_batch answers from _normalize_batch_gpt: there is a client and
\* range(0, n, min(batch_size, 10)) does not raise (it does for a step of 0)
BatchUsesGpt(inst, batch_size) == inst.has_client /\ Min(batch_size, 10) # 0

\* normalize_batch: results, the cache afterwards, the keys that left the cache, the
\* products sent to the LM
normalize_batch(inst, c, products, prices, batch_size, replies, lms) ==
    IF BatchUsesGpt(inst, batch_size)
    THEN [results |-> IF Min(batch_size, 10) < 0 THEN <<>>
                      ELSE _normalize_batch_gpt(products, Min(batch_size, 10), replies),
          cache |-> c,
          evicted |-> {},
          lm_sent |-> IF Min(batch_size, 10) < 0 THEN {} ELSE 1..Len(products)]
    ELSE SequentialLoop(inst, products, prices, lms, 1,
                        [results |-> <<>>, cache |-> c, evicted |-> {}, lm_sent |-> {}])

----------------------------------------------------------------------------
(* OfferDetector                                                             *)
(*                                                                           *)
(* A page is a sequence of TextBlocks [text, cx, cy]; a block is named by    *)
(* its position in page.blocks (the source names it by id()).  cx and cy are *)
(* center_x and center_y in hundredths of the page; the blocks of the model  *)
(* have one size, so ordering by y1 or x1 is ordering by cy or cx.           *)

MaxBlocks == 4         \* TextBlocks in a document

DTexts == {"25,-", "Cola", "Cola 25,-"}   \* TextBlock texts
\* <<cx, cy>> of a TextBlock: each place is near the next one only
Positions == {<<10, 10>>, <<10, 20>>, <<30, 24>>, <<30, 34>>}

min_price == 1000      \* OfferDetector.min_price, 1.0 kr
max_price == 9999000   \* OfferDetector.max_price, 9999.0 kr

\* _extract_price: no text of the model meets a skip pattern or a unit price pattern
_extract_price(text) ==
    IF IsNone(PriceMatch(text)) THEN None
    ELSE IF min_price <= Get(PriceMatch(text)) /\ Get(PriceMatch(text)) <= max_price
         THEN Some([value |-> Get(PriceMatch(text)), is_unit_price |-> FALSE,
                    has_deposit_mention |-> FALSE])
         ELSE None

\* _is_valid_product_text
_is_valid_product_text(text) ==
    /\ StrLen(text) >= 2
    /\ ~OnlyDigits(text)
    /\ Letters(text) > 0

\* _block_distance <= max_block_distance (0.15): dx * 0.5 + dy <= 15, doubled
IsNear(a, b) == Abs(a.cx - b.cx) + 2 * Abs(a.cy - b.cy) <= 30

RECURSIVE InsertSorted(_, _, _)
\* the place of block i in the stable order of list.sort / sorted; key[b] is the sort
\* key of block b
InsertSorted(sorted, i, key) ==
    IF sorted = <<>> THEN <<i>>
    ELSE IF key[i] < key[sorted[Len(sorted)]]
         THEN Append(InsertSorted(SubSeq(sorted, 1, Len(sorted) - 1), i, key),
                     sorted[Len(sorted)])
         ELSE Append(sorted, i)

RECURSIVE StableSort(_, _, _)
StableSort(seq, k, key) ==
    IF k = 0 THEN <<>>
    ELSE InsertSorted(StableSort(seq, k - 1, key), seq[k], key)

\* _find_nearby_blocks that does not skip the used blocks
Mutant_find_nearby_blocks(target, page_blocks, used_blocks) ==
    LET nearby == SelectIdx(1, Len(page_blocks),
                     { b \in 1..Len(page_blocks) :
                         /\ b # target
                         /\ IsNear(page_blocks[target], page_blocks[b])
                         /\ _is_valid_product_text(page_blocks[b].text) })
    IN  StableSort(nearby, Len(nearby), [b \in 1..Len(page_blocks) |-> page_blocks[b].cy])

\* _find_nearby_blocks: positions in page_blocks, sorted by y1
_find_nearby_blocks(target, page_blocks, used_blocks) ==
    LET nearby == SelectIdx(1, Len(page_blocks),
                     { b \in 1..Len(page_blocks) :
                         /\ b \notin used_blocks
                         /\ b # target
                         /\ IsNear(page_blocks[target], page_blocks[b])
                         /\ _is_valid_product_text(page_blocks[b].text) })
    IN  StableSort(nearby, Len(nearby), [b \in 1..Len(page_blocks) |-> page_blocks[b].cy])

\* _calculate_detection_confidence, in hundredths; no text of the model holds a
\* quantity or a unit price
_calculate_detection_confidence(product_text, price) ==
    LET len == ProduktLen(product_text)
        letters == SumLetters(product_text, 1)
        confidence ==
            50 + (IF len > 5 THEN 10 ELSE 0)
               + (IF len > 15 THEN 10 ELSE 0)
               + (IF 5000 <= price.value /\ price.value <= 500000 THEN 10 ELSE 0)
               + (IF \E k \in 1..Len(product_text) : HasCapWord(product_text[k])
                  THEN 5 ELSE 0)
               - (IF len < 4 THEN 20 ELSE 0)
               - (IF 2 * letters < len THEN 10 ELSE 0)
    IN  Min(100, Max(0, confidence))

\* _create_offer_block: None or the OfferBlock; price_block is kept beside price
_create_offer_block(all_blocks, price_block, price_info, page, page_blocks) ==
    LET sorted_blocks ==
            \* key=lambda b: (b.y1, b.x1); coordinates stay below 100
            StableSort(all_blocks, Len(all_blocks),
                [b \in 1..Len(page_blocks) |-> page_blocks[b].cy * 100 + page_blocks[b].cx])
        parts == SelectSeq(sorted_blocks,
                    LAMBDA b : b # price_block /\ _is_valid_product_text(page_blocks[b].text))
        product_text == [k \in 1..Len(parts) |-> page_blocks[parts[k]].text]
    IN  IF all_blocks = <<>> \/ product_text = <<>> THEN None
        ELSE Some([page |-> page,
                   text_blocks |-> sorted_blocks,
                   product_text |-> product_text,
                   price |-> Some(price_info),
                   price_block |-> price_block,
                   has_deposit |-> price_info.has_deposit_mention,
                   detection_confidence |->
                       _calculate_detection_confidence(product_text, price_info)])

RECURSIVE DetectLoop(_, _, _, _, _)
\* _detect_offers_on_page, 'for price_block, price_info in price_blocks'
DetectLoop(page, page_blocks, price_blocks, k, st) ==
    IF k > Len(price_blocks) THEN st.offers
    ELSE LET price_block == price_blocks[k]
             price_info == Get(_extract_price(page_blocks[price_block].text))
             nearby_blocks == _find_nearby_blocks(price_block, page_blocks, st.used_blocks)
             all_blocks == Append(nearby_blocks, price_block)
             offer == _create_offer_block(all_blocks, price_block, price_info, page,
                                          page_blocks)
         IN  IF price_block \in st.used_blocks \/ nearby_blocks = <<>>
             THEN DetectLoop(page, page_blocks, price_blocks, k + 1, st)
             ELSE IF ~IsNone(offer) /\ Get(offer).detection_confidence > 30
                  THEN DetectLoop(page, page_blocks, price_blocks, k + 1,
                          [offers |-> Append(st.offers, Get(offer)),
                           used_blocks |-> st.used_blocks
                                           \cup {all_blocks[j] : j \in 1..Len(all_blocks)}])
                  ELSE DetectLoop(page, page_blocks, price_blocks, k + 1, st)

_detect_offers_on_page(page, page_blocks) ==
    LET price_blocks ==
            SelectIdx(1, Len(page_blocks),
                { b \in 1..Len(page_blocks) :
                    /\ ~IsNone(_extract_price(page_blocks[b].text))
                    /\ ~Get(_extract_price(page_blocks[b].text)).is_unit_price })
    IN  DetectLoop(page, page_blocks, price_blocks, 1, [offers |-> <<>>, used_blocks |-> {}])

RECURSIVE detect_offers(_, _)
\* detect_offers: the pages in order, from page number p on
detect_offers(doc, p) ==
    IF p > Len(doc) THEN <<>>
    ELSE _detect_offers_on_page(p, doc[p]) \o detect_offers(doc, p + 1)

----------------------------------------------------------------------------
(* confidence.py                                                             *)
(*                                                                           *)
(* In a ConfidenceInput product_norm is a product text, <<>> standing for    *)
(* None and for "", and product_norm_set tells the two apart; category is    *)
(* "" for None.                                                              *)

\* the units calculate_confidence knows
KnownAmountUnits == {"g", "kg", "ml", "cl", "dl", "l", "liter", "stk", "stk.", "pk", "pak"}

\* the score of each factor, in hundredths
PriceScore(input) ==
    IF input.has_price /\ ~IsNone(input.price_value) /\ Get(input.price_value) > 0
    THEN IF Get(input.price_value) < 1000 THEN 70
         ELSE IF Get(input.price_value) > 5000000 THEN 60
         ELSE 100
    ELSE 0

DetectionScore(input) == Min(100, Max(0, input.detection_confidence))

GptScore(input) ==
    LET base == Min(100, Max(0, input.gpt_confidence))
        named == IF ProduktLen(input.product_norm) >= 3 THEN Max(base, 60) ELSE base
        branded == IF ~IsNone(input.brand_norm) THEN Min(100, named + 10) ELSE named
    IN  IF input.category # "" /\ input.category # "Andet" THEN Min(100, branded + 5)
        ELSE branded

AmountScore(input) ==
    IF /\ input.has_amount
       /\ ~IsNone(input.net_amount_value) /\ Get(input.net_amount_value) # 0
       /\ ~IsNone(input.net_amount_unit) /\ Get(input.net_amount_unit) # ""
    THEN IF Get(input.net_amount_value) <= 0 THEN 30
         ELSE IF Lower(Get(input.net_amount_unit)) \notin KnownAmountUnits THEN 70
         ELSE 100
    ELSE 50

\* product_norm_set is 'input.product_norm is not None'
CompletenessScore(input) ==
    20 * ( (IF input.has_price THEN 1 ELSE 0)
         + (IF input.product_norm_set THEN 1 ELSE 0)
         + (IF input.has_amount THEN 1 ELSE 0)
         + (IF ~IsNone(input.container_type) THEN 1 ELSE 0)
         + (IF input.has_unit_price THEN 1 ELSE 0) )

\* the weighted sum, in ten-thousandths: WEIGHTS
WeightedSum(input) ==
    PriceScore(input) * 35 + DetectionScore(input) * 25 + GptScore(input) * 20
        + AmountScore(input) * 15 + CompletenessScore(input) * 5

\* round(overall, 2): at an exact tie the binary value of the float decides, so both
\* neighbours are possible
Round2Overall(x) ==
    IF x % 100 < 50 THEN {x \div 100}
    ELSE IF x % 100 > 50 THEN {(x \div 100) + 1}
    ELSE {x \div 100, (x \div 100) + 1}

\* calculate_confidence: the values 'overall' can have, in hundredths
calculate_confidence(input) ==
    { LET capped == IF ~input.has_price THEN Min(o, 30) ELSE o
      IN  IF input.product_norm = <<>> THEN Min(capped, 50) ELSE capped
      : o \in Round2Overall(WeightedSum(input)) }

\* get_status_from_confidence with 'confidence > 0.9'
Mutant_get_status_from_confidence(confidence) ==
    IF confidence > 90 THEN "published"
    ELSE IF confidence >= 50 THEN "needs_review"
    ELSE "low_confidence"

\* get_status_from_confidence
get_status_from_confidence(confidence) ==
    IF confidence >= 90 THEN "published"
    ELSE IF confidence >= 50 THEN "needs_review"
    ELSE "low_confidence"

----------------------------------------------------------------------------
(* Scanner._process_offer_block                                              *)

\* calculate_unit_price gives a value: price, amount and a unit it converts
UnitPriceUnits == {"ml", "milliliter", "cl", "dl", "l", "liter", "g", "gram", "kg",
                   "kilo", "kilogram", "stk", "stk.", "pk", "pak", "pakke"}

calculate_unit_price_found(price_value, net_amount_value, net_amount_unit) ==
    /\ ~IsNone(price_value) /\ Get(price_value) > 0
    /\ ~IsNone(net_amount_value) /\ Get(net_amount_value) > 0
    /\ ~IsNone(net_amount_unit) /\ Get(net_amount_unit) # ""
    /\ LowerStrip(Get(net_amount_unit)) \in UnitPriceUnits

\* the ConfidenceInput _process_offer_block builds
ConfidenceInputOf(block, normalized) ==
    [detection_confidence |-> block.detection_confidence,
     has_price |-> ~IsNone(block.price),
     price_value |-> Some(Get(block.price).value),
     has_amount |-> ~IsNone(normalized.net_amount_value),
     net_amount_value |-> normalized.net_amount_value,
     net_amount_unit |-> normalized.net_amount_unit,
     gpt_confidence |-> normalized.confidence,
     brand_norm |-> normalized.brand_norm,
     product_norm |-> normalized.product_norm,
     product_norm_set |-> TRUE,
     category |-> normalized.category,
     container_type |-> normalized.container_type,
     has_unit_price |-> calculate_unit_price_found(Some(Get(block.price).value),
                            normalized.net_amount_value, normalized.net_amount_unit)]

\* _process_offer_block for a block with a price: the ScannedOffers it can return
\* (one per value of the confidence) and the cache afterwards
_process_offer_block(inst, c, block, bi, lm) ==
    LET n == normalize(inst, c, block.product_text, Some(Get(block.price).value), lm)
        normalized == n.result
    IN  [cache |-> n.cache,
         offers |->
            { [product_text_raw |-> block.product_text,
               product_norm |-> IF normalized.product_norm = <<>> THEN block.product_text
                                ELSE normalized.product_norm,
               brand_norm |-> normalized.brand_norm,
               category |-> normalized.category,
               price_value |-> Some(Get(block.price).value),
               confidence |-> overall,
               status |-> get_status_from_confidence(overall),
               page |-> block.page,
               block |-> bi]
              : overall \in calculate_confidence(ConfidenceInputOf(block, normalized)) }]

----------------------------------------------------------------------------
(* _extract_text_with_prices: the price locators of the flyer scanners       *)
(*                                                                           *)
(* A span is [text, size], the font size in tenths of a point; a line of the *)
(* page is [x, spans], x the left edge of the line's bbox.  A line text is   *)
(* the sequence of its span texts.  The anchors of the locators carry their  *)
(* value in øre.                                                             *)

MaxSpans == 3          \* spans on a page

\* text.isdigit(), with int(text)
DigitsOf(t) ==
    CASE t = "15" -> Some(15)
      [] t = "95" -> Some(95)
      [] t = "1234" -> Some(1234)
      [] OTHER -> None

\* re.search(r'(\d+)\s*[.,]\s*-', text): group 1 as an integer
DashPriceOf(t) == IF t = "49,-" THEN Some(49) ELSE None

\* re.match(r'^(\d+)[.,](\d{2})$', text): float(f"{group 1}.{group 2}"), in øre
DecimalPriceOf(t) == IF t = "29,95" THEN Some(2995) ELSE None

\* The spans of the pages: digits at the sizes around the tiers (22, 49.9 and 50 pt)
NettoSpans ==
    { [text |-> t, size |-> s] : t \in {"15", "95", "1234"}, s \in {220, 499, 500} }
    \cup { [text |-> t, size |-> 220] : t \in {".-", "Cola", " "} }
RemaSpans ==
    { [text |-> t, size |-> s] : t \in {"49,-", "29,95"}, s \in {499, 500} }
    \cup { [text |-> "15", size |-> 500], [text |-> "Cola", size |-> 220] }
SpansOf(loc) == IF loc = "netto" THEN NettoSpans ELSE RemaSpans

\* the lines of at most n spans a page can go on with
LinesOf(loc, n) ==
    UNION { { [x |-> x, spans |-> sp] : x \in Xs, sp \in [1..m -> SpansOf(loc)] } :
            m \in 1..n }

RECURSIVE CollapseBlanks(_)
\* re.sub(r'\s+', ' ', text) on the parts: one blank for a run of blanks
CollapseBlanks(parts) ==
    IF Len(parts) < 2 THEN parts
    ELSE IF Strip(parts[1]) = "" /\ Strip(parts[2]) = ""
         THEN CollapseBlanks(Tail(parts))
         ELSE <<parts[1]>> \o CollapseBlanks(Tail(parts))

RECURSIVE StripParts(_)
\* str.strip() on the parts: no blank part at either end
StripParts(parts) ==
    IF parts = <<>> THEN parts
    ELSE IF Strip(parts[1]) = "" THEN StripParts(Tail(parts))
    ELSE IF Strip(parts[Len(parts)]) = "" THEN StripParts(SubSeq(parts, 1, Len(parts) - 1))
    ELSE parts

\* _clean_text(line_text); the empty sequence is the empty string
_clean_text(parts) == StripParts(CollapseBlanks(parts))

LineText(spans) == [j \in 1..Len(spans) |-> spans[j].text]

\* RemaScanner: self._is_skip_line(full_line) or self._is_app_offer(full_line) on the
\* lines of RemaSpans: '^\d+\s*[.,]\s*-\s*$' and '^\d+[.,]\d{2}$' of SKIP_PATTERNS match
\* a line that is digits and then a dash price or a decimal price, and no other
\* pattern matches a line of these spans
RemaLineIsSkip(spans) ==
    /\ spans # <<>>
    /\ \A j \in 1..(Len(spans) - 1) : ~IsNone(DigitsOf(spans[j].text))
    /\ \/ ~IsNone(DashPriceOf(spans[Len(spans)].text))
       \/ ~IsNone(DecimalPriceOf(spans[Len(spans)].text))

\* the span loop without 'current_price_kr = None' after an anchor: the register keeps
\* the kroner that was completed
Mutant_NettoSpanStepKeeps(kr, pos, kx, span, li, line_x) ==
    LET text_stripped == Strip(span.text)
        digits == DigitsOf(text_stripped)
        keep == [kr |-> kr, pos |-> pos, x |-> kx, emitted |-> <<>>]
    IN  IF span.size >= 500 /\ ~IsNone(digits) /\ StrLen(text_stripped) <= 3
        THEN [kr |-> digits, pos |-> Some(li), x |-> Some(line_x), emitted |-> <<>>]
        ELSE IF ~IsNone(kr) /\ text_stripped \in {".-", "-", ".", ",-"}
        THEN IF pos = Some(li)
             THEN [kr |-> kr, pos |-> pos, x |-> kx,
                   emitted |-> <<[value |-> Get(kr) * 100, line_index |-> li,
                                  x |-> Get(kx)]>>]
             ELSE keep
        ELSE IF span.size >= 200 /\ span.size < 500 /\ ~IsNone(kr)
        THEN IF ~IsNone(digits) /\ StrLen(text_stripped) = 2 /\ pos = Some(li)
             THEN [kr |-> kr, pos |-> pos, x |-> kx,
                   emitted |-> <<[value |-> Get(kr) * 100 + Get(digits),
                                  line_index |-> li, x |-> Get(kx)]>>]
             ELSE keep
        ELSE keep

\* the span loop with the kroner tier at 49.9 pt
Mutant_NettoSpanStepTier(kr, pos, kx, span, li, line_x) ==
    LET text_stripped == Strip(span.text)
        digits == DigitsOf(text_stripped)
        keep == [kr |-> kr, pos |-> pos, x |-> kx, emitted |-> <<>>]
    IN  IF span.size >= 499 /\ ~IsNone(digits) /\ StrLen(text_stripped) <= 3
        THEN [kr |-> digits, pos |-> Some(li), x |-> Some(line_x), emitted |-> <<>>]
        ELSE IF ~IsNone(kr) /\ text_stripped \in {".-", "-", ".", ",-"}
        THEN IF pos = Some(li)
             THEN [kr |-> None, pos |-> pos, x |-> kx,
                   emitted |-> <<[value |-> Get(kr) * 100, line_index |-> li,
                                  x |-> Get(kx)]>>]
             ELSE keep
        ELSE IF span.size >= 200 /\ span.size < 500 /\ ~IsNone(kr)
        THEN IF ~IsNone(digits) /\ StrLen(text_stripped) = 2 /\ pos = Some(li)
             THEN [kr |-> None, pos |-> pos, x |-> kx,
                   emitted |-> <<[value |-> Get(kr) * 100 + Get(digits),
                                  line_index |-> li, x |-> Get(kx)]>>]
             ELSE keep
        ELSE keep

\* the span loop without 'if current_price_kr_pos == line_index': a separator or øre
\* span completes the kroner of an earlier line
Mutant_NettoSpanStep(kr, pos, kx, span, li, line_x) ==
    LET text_stripped == Strip(span.text)
        digits == DigitsOf(text_stripped)
        keep == [kr |-> kr, pos |-> pos, x |-> kx, emitted |-> <<>>]
    IN  IF span.size >= 500 /\ ~IsNone(digits) /\ StrLen(text_stripped) <= 3
        THEN [kr |-> digits, pos |-> Some(li), x |-> Some(line_x), emitted |-> <<>>]
        ELSE IF ~IsNone(kr) /\ text_stripped \in {".-", "-", ".", ",-"}
        THEN [kr |-> None, pos |-> pos, x |-> kx,
              emitted |-> <<[value |-> Get(kr) * 100, line_index |-> li,
                             x |-> Get(kx)]>>]
        ELSE IF span.size >= 200 /\ span.size < 500 /\ ~IsNone(kr)
        THEN IF ~IsNone(digits) /\ StrLen(text_stripped) = 2
             THEN [kr |-> None, pos |-> pos, x |-> kx,
                   emitted |-> <<[value |-> Get(kr) * 100 + Get(digits),
                                  line_index |-> li, x |-> Get(kx)]>>]
             ELSE keep
        ELSE keep

\* ScannerV2._extract_text_with_prices, one turn of 'for span in spans': the register
\* (current_price_kr, current_price_kr_pos, current_price_kr_x) afterwards and the
\* anchors appended to font_prices
NettoSpanStep(kr, pos, kx, span, li, line_x) ==
    LET text_stripped == Strip(span.text)
        digits == DigitsOf(text_stripped)
        keep == [kr |-> kr, pos |-> pos, x |-> kx, emitted |-> <<>>]
    IN  IF span.size >= 500 /\ ~IsNone(digits) /\ StrLen(text_stripped) <= 3
        THEN [kr |-> digits, pos |-> Some(li), x |-> Some(line_x), emitted |-> <<>>]
        ELSE IF ~IsNone(kr) /\ text_stripped \in {".-", "-", ".", ",-"}
        THEN IF pos = Some(li)
             THEN [kr |-> None, pos |-> pos, x |-> kx,
                   emitted |-> <<[value |-> Get(kr) * 100, line_index |-> li,
                                  x |-> Get(kx)]>>]
             ELSE keep
        ELSE IF span.size >= 200 /\ span.size < 500 /\ ~IsNone(kr)
        THEN IF ~IsNone(digits) /\ StrLen(text_stripped) = 2 /\ pos = Some(li)
             THEN [kr |-> None, pos |-> pos, x |-> kx,
                   emitted |-> <<[value |-> Get(kr) * 100 + Get(digits),
                                  line_index |-> li, x |-> Get(kx)]>>]
             ELSE keep
        ELSE keep

\* RemaScanner._extract_text_with_prices, one turn of 'for span in spans': the anchors
\* appended to font_prices (combo_match matches nothing that price_match does not)
RemaSpanStep(is_skip, span, li, line_x) ==
    LET text_stripped == Strip(span.text) IN
    IF is_skip \/ span.size < 500 THEN <<>>
    ELSE IF ~IsNone(DashPriceOf(text_stripped))
         THEN <<[value |-> Get(DashPriceOf(text_stripped)) * 100, line_index |-> li,
                 x |-> line_x]>>
         ELSE IF ~IsNone(DecimalPriceOf(text_stripped))
              THEN <<[value |-> Get(DecimalPriceOf(text_stripped)), line_index |-> li,
                      x |-> line_x]>>
              ELSE <<>>

----------------------------------------------------------------------------
(* The x of a line: line["bbox"][0], which PyMuPDF gives in points from the   *)
(* left edge of the page                                                     *)

MaxColumnLines == 3
PageWidths == {100, 200, 595}     \* points; 595 is A4
LinePositions == {12, 36, 55}         \* left edge of a line, in hundredths of the page width

\* line_x of a line at position p (hundredths of the width) of a page w points wide,
\* in hundredths of a point
LineX(p, w) == p * w
----------------------------------------------------------------------------
(* services/sku_key.py. A str is the sequence of its characters here, so the  *)
(* key is built and taken apart character by character                       *)

AsciiLower == {"a", "b", "c", "d", "e", "f", "g", "h", "i", "j", "k", "l", "m",
               "n", "o", "p", "q", "r", "s", "t", "u", "v", "w", "x", "y", "z"}
AsciiDigits == {"0", "1", "2", "3", "4", "5", "6", "7", "8", "9"}
DigitChars == <<"0", "1", "2", "3", "4", "5", "6", "7", "8", "9">>

\* str.lower() of one character
LowerChar(c) ==
    CASE c = "A" -> "a" [] c = "B" -> "b" [] c = "C" -> "c" [] c = "G" -> "g"
      [] c = "K" -> "k" [] c = "L" -> "l" [] c = "N" -> "n" [] c = "T" -> "t"
      [] c = "Æ" -> "æ" [] c = "Ø" -> "ø" [] c = "Å" -> "å"
      [] OTHER -> c

LowerChars(s) == [k \in 1..Len(s) |-> LowerChar(s[k])]

RECURSIVE LStripChars(_, _)
LStripChars(s, drop) ==
    IF s # <<>> /\ Head(s) \in drop THEN LStripChars(Tail(s), drop) ELSE s

RECURSIVE RStripChars(_, _)
RStripChars(s, drop) ==
    IF s # <<>> /\ s[Len(s)] \in drop THEN RStripChars(SubSeq(s, 1, Len(s) - 1), drop) ELSE s

\* str.strip() and str.strip('-')
StripChars(s, drop) == RStripChars(LStripChars(s, drop), drop)

RECURSIVE ReplaceDanish(_)
\* the loop of result.replace(danish, replacement)
ReplaceDanish(s) ==
    IF s = <<>> THEN <<>>
    ELSE (CASE Head(s) \in {"æ", "Æ"} -> <<"a", "e">>
            [] Head(s) \in {"ø", "Ø"} -> <<"o", "e">>
            [] Head(s) \in {"å", "Å"} -> <<"a", "a">>
            [] OTHER -> <<Head(s)>>) \o ReplaceDanish(Tail(s))

RECURSIVE CollapseRuns(_, _, _)
\* re.sub(c+, r): every maximal run of characters of cs becomes r
CollapseRuns(s, cs, r) ==
    IF s = <<>> THEN <<>>
    ELSE IF Head(s) \in cs
         THEN <<r>> \o CollapseRuns(LStripChars(s, cs), cs, r)
         ELSE <<Head(s)>> \o CollapseRuns(Tail(s), cs, r)

IsKeyChar(c) == c \in AsciiLower \cup AsciiDigits \cup {"-", " "}

\* normalize_text(text): None or a non-empty str
normalize_text(text) ==
    IF IsNone(text) \/ Get(text) = <<>> THEN None
    ELSE LET lowered == StripChars(LowerChars(Get(text)), {" "})
             danish == ReplaceDanish(lowered)
             plain == SelectSeq(danish, IsKeyChar)
             hyphened == CollapseRuns(plain, {" "}, "-")
             single == CollapseRuns(hyphened, {"-"}, "-")
             trimmed == StripChars(single, {"-"})
         IN  IF trimmed = <<>> THEN None ELSE Some(trimmed)

NullStr == <<"n", "u", "l", "l">>

RECURSIVE IntStr(_)
\* f"{int(n)}" of n >= 0
IntStr(n) == IF n < 10 THEN <<DigitChars[n + 1]>>
             ELSE IntStr(n \div 10) \o <<DigitChars[(n % 10) + 1]>>

\* round() of v thousandths: to the nearest integer, a half to the even one
RoundThousandths(v) ==
    LET q == v \div 1000
        r == v % 1000
    IN  IF r > 500 \/ (r = 500 /\ q % 2 = 1) THEN q + 1 ELSE q

\* unit_conversions: the new unit and the multiplier, None if the unit is not in the dict
UnitConversion(u) ==
    CASE u \in {<<"l">>, <<"l", "i", "t", "e", "r">>} -> Some([unit |-> <<"m", "l">>, by |-> 1000])
      [] u = <<"d", "l">> -> Some([unit |-> <<"m", "l">>, by |-> 100])
      [] u = <<"c", "l">> -> Some([unit |-> <<"m", "l">>, by |-> 10])
      [] u \in {<<"k", "g">>, <<"k", "i", "l", "o">>,
                <<"k", "i", "l", "o", "g", "r", "a", "m">>} ->
            Some([unit |-> <<"g">>, by |-> 1000])
      [] OTHER -> None

\* the value and the unit format_amount writes; value in thousandths
AmountInBase(value, unit) ==
    LET normalized_unit == StripChars(LowerChars(unit), {" "})
        conv == UnitConversion(normalized_unit)
    IN  IF IsNone(conv) THEN [value |-> RoundThousandths(value), unit |-> normalized_unit]
        ELSE [value |-> RoundThousandths(value * Get(conv).by), unit |-> Get(conv).unit]

\* format_amount(value, unit)
format_amount(value, unit) ==
    IF IsNone(value) \/ IsNone(unit) THEN NullStr
    ELSE LET a == AmountInBase(Get(value), Get(unit)) IN IntStr(a.value) \o a.unit

\* "|".join(parts) raises TypeError when a part is None
Raised(e) == [raised |-> TRUE, exception |-> e, value |-> None]
Returned(v) == [raised |-> FALSE, exception |-> "", value |-> v]

OrNull(t) == IF IsNone(t) THEN NullStr ELSE Get(t)

\* generate_sku_key: what it returns (None or Some(key)) or raises
generate_sku_key(brand_norm, product_norm, variant_norm, container_type, net_amount_value, net_amount_unit) ==
    IF IsNone(product_norm) \/ Get(product_norm) = <<>>
       \/ StripChars(Get(product_norm), {" "}) = <<>>
    THEN Returned(None)
    ELSE IF IsNone(normalize_text(product_norm)) THEN Raised("TypeError")
    ELSE Returned(Some(OrNull(normalize_text(brand_norm)) \o <<"|">>
                       \o Get(normalize_text(product_norm)) \o <<"|">>
                       \o OrNull(normalize_text(variant_norm)) \o <<"|">>
                       \o OrNull(normalize_text(container_type)) \o <<"|">>
                       \o format_amount(net_amount_value, net_amount_unit)))

RECURSIVE SplitOn(_, _, _)
\* str.split(sep): cur is the part being read
SplitOn(s, sep, cur) ==
    IF s = <<>> THEN <<cur>>
    ELSE IF Head(s) = sep THEN <<cur>> \o SplitOn(Tail(s), sep, <<>>)
    ELSE SplitOn(Tail(s), sep, Append(cur, Head(s)))

RECURSIVE StrInt(_, _)
\* int(digits)
StrInt(s, acc) ==
    IF s = <<>> THEN acc
    ELSE StrInt(Tail(s), acc * 10 + (CHOOSE d \in 0..9 : DigitChars[d + 1] = Head(s)))

RECURSIVE RunLen(_, _)
\* the length of the longest prefix of s made of characters of cs
RunLen(s, cs) == IF s # <<>> /\ Head(s) \in cs THEN 1 + RunLen(Tail(s), cs) ELSE 0

\* \w of the characters of the model
WordChars == AsciiLower \cup AsciiDigits \cup {"_", "æ", "ø", "å"}

\* re.match(r'(\d+)(\w+)', amount): None, or the two groups. \d+ takes all the digits and
\* gives the last one back when no word character follows them
MatchAmount(amount) ==
    LET d == RunLen(amount, AsciiDigits)
        w == RunLen(SubSeq(amount, d + 1, Len(amount)), WordChars)
    IN  IF d = 0 THEN None
        ELSE IF w > 0 THEN Some([value |-> SubSeq(amount, 1, d),
                                 unit |-> SubSeq(amount, d + 1, d + w)])
        ELSE IF d >= 2 THEN Some([value |-> SubSeq(amount, 1, d - 1),
                                  unit |-> SubSeq(amount, d, d)])
        ELSE None

NullIsNone(part) == IF part = NullStr THEN None ELSE Some(part)

\* parse_sku_key(sku_key): None for the empty dict; a key that the dict lacks is None
parse_sku_key(key) ==
    LET parts == SplitOn(key, "|", <<>>) IN
    IF Len(parts) # 5 THEN None
    ELSE LET amount == NullIsNone(parts[5])
             match == IF ~IsNone(amount) /\ Get(amount) # <<>>
                      THEN MatchAmount(Get(amount)) ELSE None
         IN  Some([brand |-> NullIsNone(parts[1]),
                   product |-> NullIsNone(parts[2]),
                   variant |-> NullIsNone(parts[3]),
                   container |-> NullIsNone(parts[4]),
                   amount |-> amount,
                   amount_value |-> IF IsNone(match) THEN None
                                    ELSE Some(StrInt(Get(match).value, 0)),
                   amount_unit |-> IF IsNone(match) THEN None ELSE Some(Get(match).unit)])

----------------------------------------------------------------------------
(* services/unit_price.py. price and deposit in øre, net_amount_value in      *)
(* hundredths of its unit, the unit price in øre per L, kg or stk             *)

\* the litres, kilograms or pieces in total_amount: total_amount / 1000, / 100, / 10 or
\* total_amount itself; None for an unknown unit
UnitsPerBase(unit) ==
    CASE unit \in {"ml", "milliliter"} -> Some([per |-> 1000, unit |-> "kr/L"])
      [] unit = "cl" -> Some([per |-> 100, unit |-> "kr/L"])
      [] unit = "dl" -> Some([per |-> 10, unit |-> "kr/L"])
      [] unit \in {"l", "liter"} -> Some([per |-> 1, unit |-> "kr/L"])
      [] unit \in {"g", "gram"} -> Some([per |-> 1000, unit |-> "kr/kg"])
      [] unit \in {"kg", "kilo", "kilogram"} -> Some([per |-> 1, unit |-> "kr/kg"])
      [] unit \in {"stk", "stk.", "pk", "pak", "pakke"} -> Some([per |-> 1, unit |-> "kr/stk"])
      [] OTHER -> None

\* round(unit_price, 2) where the quotient of the reals is on a half øre: the binary64
\* quotient is the tie itself or a neighbour of it, and the arguments (price, deposit,
\* amount, unit, pack) of the model for which round() gives the upper øre are these
TiesRoundedUp ==
    { <<Some(525), None, 20000, "g", Some(6)>>,
      <<Some(525), None, 200, "dl", Some(6)>>,
      <<Some(525), None, 2000, "cl", Some(6)>>,
      <<Some(525), None, 20000, "ml", Some(6)>>,
      <<Some(525), None, 100, "kg", Some(6)>>,
      <<Some(525), None, 100000, "g", Some(6)>>,
      <<Some(525), None, 100, "l", Some(6)>>,
      <<Some(525), None, 1000, "dl", Some(6)>>,
      <<Some(525), None, 10000, "cl", Some(6)>>,
      <<Some(525), None, 100000, "ml", Some(6)>> }

\* round(effective_price / (total_amount / per), 2) in øre: p øre, a hundredths of the
\* unit
RoundedQuotient(price_value, deposit_value, net_amount_value, unit, pack_count, effective_price, total_amount, per) ==
    LET num == effective_price * 100 * per
        q == num \div total_amount
        r == num % total_amount
    IN  IF 2 * r < total_amount THEN q
        ELSE IF 2 * r > total_amount THEN q + 1
        ELSE IF <<price_value, deposit_value, net_amount_value, unit, pack_count>>
                    \in TiesRoundedUp
             THEN q + 1 ELSE q

\* calculate_unit_price: None or Some(UnitPrice)
calculate_unit_price(price_value, deposit_value, net_amount_value, net_amount_unit, pack_count) ==
    IF IsNone(price_value) \/ Get(price_value) <= 0 THEN None
    ELSE IF IsNone(net_amount_value) \/ Get(net_amount_value) <= 0 THEN None
    ELSE IF IsNone(net_amount_unit) \/ Get(net_amount_unit) = "" THEN None
    ELSE LET less == Get(price_value) - (IF IsNone(deposit_value) THEN 0
                                         ELSE Get(deposit_value))
             effective_price == IF less <= 0 THEN Get(price_value) ELSE less
             total_amount == Get(net_amount_value) *
                             (IF IsNone(pack_count) \/ Get(pack_count) = 0 THEN 1
                              ELSE Get(pack_count))
             unit == LowerStrip(Get(net_amount_unit))
             base == UnitsPerBase(unit)
         IN  IF IsNone(base) THEN None
             ELSE Some([value |-> RoundedQuotient(price_value, deposit_value,
                                     Get(net_amount_value), unit, pack_count,
                                     effective_price, total_amount, Get(base).per),
                        unit |-> Get(base).unit])

----------------------------------------------------------------------------
(* scanners/__init__.py: STORE_PATTERNS and detect_store; a text is the        *)
(* sequence of its characters                                                *)

\* keyword in text
Contains(text, keyword) ==
    \E i \in 1..(Len(text) - Len(keyword) + 1) :
        SubSeq(text, i, i + Len(keyword) - 1) = keyword

\* the items of STORE_PATTERNS in the order of the dict
STORE_PATTERNS ==
    <<
      [store |-> "netto",
       keywords |-> <<<<"n", "e", "t", "t", "o">>,
                     <<"d", "ø", "g", "n", "n", "e", "t">>,
                     <<"n", "e", "t", "t", "o", "d", "a", "g">>,
                     <<"n", "e", "t", "t", "o", "-", "p", "r", "i", "s", "e", "r">>>>,
       exclusive |-> <<<<"n", "e", "t", "t", "o">>>>],
      [store |-> "foetex",
       keywords |-> <<<<"f", "ø", "t", "e", "x">>,
                     <<"f", "o", "e", "t", "e", "x">>,
                     <<"f", "o", "t", "e", "x">>,
                     <<"f", "ø", "t", "e", "x", " ", "t", "i", "l", "b", "u", "d">>>>,
       exclusive |-> <<<<"f", "ø", "t", "e", "x">>,
                      <<"f", "o", "e", "t", "e", "x">>>>],
      [store |-> "bilka",
       keywords |-> <<<<"b", "i", "l", "k", "a">>,
                     <<"b", "i", "l", "k", "a", " ", "t", "i", "l", "b", "u", "d">>,
                     <<"b", "i", "l", "k", "a", "t", "i", "l", "b", "u", "d">>>>,
       exclusive |-> <<<<"b", "i", "l", "k", "a">>>>],
      [store |-> "superbrugsen",
       keywords |-> <<<<"s", "u", "p", "e", "r", "b", "r", "u", "g", "s", "e", "n">>,
                     <<"s", "u", "p", "e", "r", " ", "b", "r", "u", "g", "s", "e", "n">>,
                     <<"b", "r", "u", "g", "s", "e", "n">>,
                     <<"d", "a", "g", "l", "i", " ", "b", "r", "u", "g", "s", "e", "n">>>>,
       exclusive |-> <<<<"s", "u", "p", "e", "r", "b", "r", "u", "g", "s", "e", "n">>,
                      <<"s", "u", "p", "e", "r", " ", "b", "r", "u", "g", "s", "e", "n">>>>],
      [store |-> "kvickly",
       keywords |-> <<<<"k", "v", "i", "c", "k", "l", "y">>,
                     <<"k", "v", "i", "c", "k", "l", "y", " ", "t", "i", "l", "b", "u", "d">>>>,
       exclusive |-> <<<<"k", "v", "i", "c", "k", "l", "y">>>>],
      [store |-> "365discount",
       keywords |-> <<<<"3", "6", "5", "d", "i", "s", "c", "o", "u", "n", "t">>,
                     <<"3", "6", "5", " ", "d", "i", "s", "c", "o", "u", "n", "t">>,
                     <<"c", "o", "o", "p", " ", "3", "6", "5">>,
                     <<"3", "6", "5">>>>,
       exclusive |-> <<<<"3", "6", "5", "d", "i", "s", "c", "o", "u", "n", "t">>,
                      <<"c", "o", "o", "p", " ", "3", "6", "5">>>>],
      [store |-> "rema",
       keywords |-> <<<<"r", "e", "m", "a">>,
                     <<"r", "e", "m", "a", "1", "0", "0", "0">>,
                     <<"r", "e", "m", "a", " ", "1", "0", "0", "0">>,
                     <<"m", "e", "g", "e", "t", " ", "m", "e", "r", "e">>,
                     <<"a", "l", "t", "i", "d", " ", "b", "i", "l", "l", "i", "g">>>>,
       exclusive |-> <<<<"r", "e", "m", "a">>,
                      <<"r", "e", "m", "a", "1", "0", "0", "0">>,
                      <<"r", "e", "m", "a", " ", "1", "0", "0", "0">>>>],
      [store |-> "lidl",
       keywords |-> <<<<"l", "i", "d", "l">>,
                     <<"l", "i", "d", "l", " ", "d", "a", "n", "m", "a", "r", "k">>>>,
       exclusive |-> <<<<"l", "i", "d", "l">>>>],
      [store |-> "spar",
       keywords |-> <<<<"s", "p", "a", "r">>,
                     <<"e", "u", "r", "o", "s", "p", "a", "r">>,
                     <<"s", "p", "a", "r", " ", "d", "a", "n", "m", "a", "r", "k">>>>,
       exclusive |-> <<<<"s", "p", "a", "r">>,
                      <<"e", "u", "r", "o", "s", "p", "a", "r">>>>],
      [store |-> "aldi",
       keywords |-> <<<<"a", "l", "d", "i">>,
                     <<"a", "l", "d", "i", " ", "n", "o", "r", "d">>,
                     <<"a", "l", "d", "i", " ", "d", "a", "n", "m", "a", "r", "k">>>>,
       exclusive |-> <<<<"a", "l", "d", "i">>>>],
      [store |-> "meny",
       keywords |-> <<<<"m", "e", "n", "y">>,
                     <<"m", "e", "n", "y", " ", "t", "i", "l", "b", "u", "d">>>>,
       exclusive |-> <<<<"m", "e", "n", "y">>>>],
      [store |-> "irma",
       keywords |-> <<<<"i", "r", "m", "a">>,
                     <<"i", "r", "m", "a", " ", "t", "i", "l", "b", "u", "d">>>>,
       exclusive |-> <<<<"i", "r", "m", "a">>>>]
    >>

\* all_text: the lowered text of the first three pages, a space after each
RECURSIVE AllText(_, _)
AllText(pages, i) ==
    IF i > Len(pages) \/ i > 3 THEN <<>>
    ELSE LowerChars(pages[i]) \o <<" ">> \o AllText(pages, i + 1)

\* sum(1 for kw in patterns['keywords'] if kw in all_text)
KeywordScore(patterns, all_text) ==
    Cardinality({ k \in 1..Len(patterns.keywords) : Contains(all_text, patterns.keywords[k]) })

HasExclusive(patterns, all_text) ==
    \E k \in 1..Len(patterns.exclusive) : Contains(all_text, patterns.exclusive[k])

\* detect_store(pdf_content): fitz.open raises for bytes that are no PDF
detect_store(doc) ==
    IF ~doc.readable THEN "netto"
    ELSE LET all_text == AllText(doc.pages, 1)
             stores == 1..Len(STORE_PATTERNS)
             exclusive == { i \in stores : HasExclusive(STORE_PATTERNS[i], all_text) }
             scored == { i \in stores : KeywordScore(STORE_PATTERNS[i], all_text) > 0 }
         IN  IF exclusive # {}
             THEN STORE_PATTERNS[CHOOSE i \in exclusive : \A j \in exclusive : i <= j].store
             ELSE IF scored # {}
             THEN STORE_PATTERNS[
                    CHOOSE i \in scored :
                       \A j \in scored :
                          \/ KeywordScore(STORE_PATTERNS[j], all_text)
                                < KeywordScore(STORE_PATTERNS[i], all_text)
                          \/ /\ KeywordScore(STORE_PATTERNS[j], all_text)
                                   = KeywordScore(STORE_PATTERNS[i], all_text)
                             /\ i <= j].store
             ELSE "netto"

----------------------------------------------------------------------------
(* services/document_intelligence.py: _detect_retailer                        *)

\* the items of the dict display of _detect_retailer, as written
RetailerItems ==
    <<[retailer_id |-> "rema", keywords |-> <<<<"r", "e", "m", "a", " ", "1", "0", "0", "0">>, <<"r", "e", "m", "a", "1", "0", "0", "0">>>>, confidence |-> 98],
      [retailer_id |-> "foetex", keywords |-> <<<<"f", "ø", "t", "e", "x">>, <<"f", "o", "e", "t", "e", "x">>>>, confidence |-> 98],
      [retailer_id |-> "bilka", keywords |-> <<<<"b", "i", "l", "k", "a">>>>, confidence |-> 98],
      [retailer_id |-> "superbrugsen", keywords |-> <<<<"s", "u", "p", "e", "r", "b", "r", "u", "g", "s", "e", "n">>, <<"s", "u", "p", "e", "r", " ", "b", "r", "u", "g", "s", "e", "n">>>>, confidence |-> 98],
      [retailer_id |-> "kvickly", keywords |-> <<<<"k", "v", "i", "c", "k", "l", "y">>>>, confidence |-> 98],
      [retailer_id |-> "365discount", keywords |-> <<<<"3", "6", "5", "d", "i", "s", "c", "o", "u", "n", "t">>, <<"3", "6", "5", " ", "d", "i", "s", "c", "o", "u", "n", "t">>, <<"c", "o", "o", "p", " ", "3", "6", "5">>>>, confidence |-> 98],
      [retailer_id |-> "lidl", keywords |-> <<<<"l", "i", "d", "l">>>>, confidence |-> 98],
      [retailer_id |-> "aldi", keywords |-> <<<<"a", "l", "d", "i">>>>, confidence |-> 98],
      [retailer_id |-> "meny", keywords |-> <<<<"m", "e", "n", "y">>>>, confidence |-> 95],
      [retailer_id |-> "irma", keywords |-> <<<<"i", "r", "m", "a">>>>, confidence |-> 95],
      [retailer_id |-> "spar", keywords |-> <<<<"e", "u", "r", "o", "s", "p", "a", "r">>>>, confidence |-> 98],
      [retailer_id |-> "netto", keywords |-> <<<<"n", "e", "t", "t", "o">>>>, confidence |-> 95],
      [retailer_id |-> "spar", keywords |-> <<<<"s", "p", "a", "r", " ">>>>, confidence |-> 90],
      [retailer_id |-> "rema", keywords |-> <<<<"r", "e", "m", "a">>>>, confidence |-> 90]>>

RECURSIVE DictOf(_, _)
\* the dict of a dict display: a key written again keeps its place and takes the new value
DictOf(items, acc) ==
    IF items = <<>> THEN acc
    ELSE LET item == Head(items)
             at == { k \in 1..Len(acc) : acc[k].retailer_id = item.retailer_id }
         IN  DictOf(Tail(items),
                    IF at = {} THEN Append(acc, item)
                    ELSE [k \in 1..Len(acc) |-> IF k \in at THEN item ELSE acc[k]])

retailers == DictOf(RetailerItems, <<>>)

Salling == <<"s", "a", "l", "l", "i", "n", "g">>

\* _detect_retailer(text): (retailer_id, confidence), the confidence in hundredths
_detect_retailer(text) ==
    LET text_lower == LowerChars(text)
        hits == { i \in 1..Len(retailers) :
                    \E k \in 1..Len(retailers[i].keywords) :
                       Contains(text_lower, retailers[i].keywords[k]) }
    IN  IF hits # {}
        THEN LET i == CHOOSE h \in hits : \A j \in hits : h <= j
             IN  [retailer_id |-> Some(retailers[i].retailer_id),
                  confidence |-> retailers[i].confidence]
        ELSE IF Contains(text_lower, Salling)
        THEN [retailer_id |-> Some("netto"), confidence |-> 70]
        ELSE [retailer_id |-> None, confidence |-> 0]

----------------------------------------------------------------------------
(* datetime: a date is its proleptic Gregorian ordinal, 0001-01-01 being day 1 *)

IsLeap(y) == (y % 4 = 0 /\ y % 100 # 0) \/ y % 400 = 0

\* datetime(y, 1, 1).toordinal()
Jan1Ordinal(y) == 1 + 365 * (y - 1) + (y - 1) \div 4 - (y - 1) \div 100 + (y - 1) \div 400

DaysInMonth(y, m) ==
    CASE m \in {1, 3, 5, 7, 8, 10, 12} -> 31
      [] m \in {4, 6, 9, 11} -> 30
      [] m = 2 -> IF IsLeap(y) THEN 29 ELSE 28

RECURSIVE DaysBeforeMonth(_, _)
DaysBeforeMonth(y, m) == IF m = 1 THEN 0 ELSE DaysBeforeMonth(y, m - 1) + DaysInMonth(y, m - 1)

\* datetime(y, m, d)
datetime(y, m, d) == Jan1Ordinal(y) + DaysBeforeMonth(y, m) + d - 1

\* .weekday(): Monday is 0
weekday(date) == (date - 1) % 7

\* .year of a date near the year y
YearOf(date, y) == CHOOSE yy \in (y - 1)..(y + 2) : Jan1Ordinal(yy) <= date /\ date < Jan1Ordinal(yy + 1)

\* .strftime('%Y-%m-%d') of a date near the year y: the three numbers it writes
strftime(date, y) ==
    LET yy == YearOf(date, y)
        n == date - Jan1Ordinal(yy)
        mm == CHOOSE m \in 1..12 : DaysBeforeMonth(yy, m) <= n /\ n < DaysBeforeMonth(yy, m) + DaysInMonth(yy, m)
    IN  [Y |-> yy, m |-> mm, d |-> n - DaysBeforeMonth(yy, mm) + 1]

\* jan4 - timedelta(days=jan4.weekday())
week_start(year) == datetime(year, 1, 4) - weekday(datetime(year, 1, 4))

\* the week dates of _detect_validity and of parse_filename
WeekByJan4(year, week) ==
    LET valid_from == week_start(year) + 7 * (week - 1)
        valid_to == valid_from + 6
    IN  [fra |-> strftime(valid_from, year), til |-> strftime(valid_to, year)]

\* first_monday with the early Monday up to a Friday
Mutant_first_monday(year) ==
    LET jan1 == datetime(year, 1, 1) IN
    IF weekday(jan1) <= 4 THEN jan1 - weekday(jan1) ELSE jan1 + (7 - weekday(jan1))

\* first_monday of _extract_validity_period
first_monday(year) ==
    LET jan1 == datetime(year, 1, 1) IN
    IF weekday(jan1) <= 3 THEN jan1 - weekday(jan1) ELSE jan1 + (7 - weekday(jan1))

\* the week dates of _extract_validity_period (ScannerV2 and RemaScanner)
WeekByJan1(year, week) ==
    LET start == first_monday(year) + 7 * (week - 1)
        end == start + 6
    IN  [fra |-> strftime(start, year), til |-> strftime(end, year)]

----------------------------------------------------------------------------
(* services/category_service.py. A Category is its id and sort_order; the     *)
(* cache, a dict by id, is the set of its values; time in seconds             *)

_cache_duration == 300

\* _get_default_categories()
_get_default_categories ==
    <<[id |-> "mejeri", sort_order |-> 10],
      [id |-> "koed", sort_order |-> 20],
      [id |-> "paalæg", sort_order |-> 25],
      [id |-> "fisk", sort_order |-> 30],
      [id |-> "frugt-groent", sort_order |-> 40],
      [id |-> "broed-bagvaerk", sort_order |-> 50],
      [id |-> "drikkevarer", sort_order |-> 60],
      [id |-> "oel-vin", sort_order |-> 65],
      [id |-> "frost", sort_order |-> 70],
      [id |-> "kolonial", sort_order |-> 80],
      [id |-> "snacks", sort_order |-> 90],
      [id |-> "personlig-pleje", sort_order |-> 100],
      [id |-> "rengoering", sort_order |-> 110],
      [id |-> "husholdning", sort_order |-> 115],
      [id |-> "non-food", sort_order |-> 130],
      [id |-> "andet", sort_order |-> 999]>>

RECURSIVE DictById(_, _)
\* {cat.id: cat for cat in categories}: the last Category of an id stays
DictById(categories, acc) ==
    IF categories = <<>> THEN acc
    ELSE DictById(Tail(categories),
                  { c \in acc : c.id # Head(categories).id } \cup {Head(categories)})

\* _is_cache_valid()
_is_cache_valid(_cache, _cache_timestamp, now) ==
    IF _cache = {} THEN FALSE ELSE now - _cache_timestamp < _cache_duration

\* get_categories(force_refresh) falling back to the defaults at every failed fetch
Mutant_get_categories(_cache, _cache_timestamp, now, force_refresh, api) ==
    IF ~force_refresh /\ _is_cache_valid(_cache, _cache_timestamp, now)
    THEN [cache |-> _cache, cache_timestamp |-> _cache_timestamp, returned |-> _cache,
          fetched |-> FALSE, failed |-> FALSE]
    ELSE IF ~IsNone(api)
    THEN [cache |-> DictById(Get(api), {}), cache_timestamp |-> now,
          returned |-> DictById(Get(api), {}), fetched |-> TRUE, failed |-> FALSE]
    ELSE [cache |-> DictById(_get_default_categories, {}), cache_timestamp |-> now,
          returned |-> DictById(_get_default_categories, {}),
          fetched |-> TRUE, failed |-> TRUE]

\* get_categories(force_refresh) at the time now; api is what _fetch_from_api returns,
\* None when it raises. The cache afterwards, the dict returned, and whether
\* _fetch_from_api was called and failed
get_categories(_cache, _cache_timestamp, now, force_refresh, api) ==
    IF ~force_refresh /\ _is_cache_valid(_cache, _cache_timestamp, now)
    THEN [cache |-> _cache, cache_timestamp |-> _cache_timestamp, returned |-> _cache,
          fetched |-> FALSE, failed |-> FALSE]
    ELSE IF ~IsNone(api)
    THEN [cache |-> DictById(Get(api), {}), cache_timestamp |-> now,
          returned |-> DictById(Get(api), {}), fetched |-> TRUE, failed |-> FALSE]
    ELSE IF _cache # {}
    THEN [cache |-> _cache, cache_timestamp |-> _cache_timestamp, returned |-> _cache,
          fetched |-> TRUE, failed |-> TRUE]
    ELSE [cache |-> DictById(_get_default_categories, {}), cache_timestamp |-> now,
          returned |-> DictById(_get_default_categories, {}),
          fetched |-> TRUE, failed |-> TRUE]

----------------------------------------------------------------------------
(* function_app.py: process_tilbudsavis. Urls, subjects and filenames are the  *)
(* texts below, with what the string operations of the source give on them    *)

BlobUrls == {"https://st/tilbudsaviser/netto_2026-uge02.pdf",
             "https://st/processed/2026/uge02/netto_2026-uge02.pdf", ""}

\* "/tilbudsaviser/" in blob_url
InTilbudsaviser(blob_url) == blob_url = "https://st/tilbudsaviser/netto_2026-uge02.pdf"

Subjects == {"/blobServices/default/containers/tilbudsaviser/blobs/netto_2026-uge02.pdf",
             "/blobServices/default/containers/tilbudsaviser/blobs/REMA_2026-UGE53.PDF",
             "/blobServices/default/containers/tilbudsaviser/blobs/lidl_2026-uge02.pdf",
             "/blobServices/default/containers/tilbudsaviser/blobs/netto-uge2.pdf",
             "/blobServices/default/containers/tilbudsaviser/blobs/notes.txt",
             "/blobServices/default/containers/tilbudsaviser"}

\* subject.split("/blobs/")[-1] if "/blobs/" in subject else None
FilenameOf(subject) ==
    CASE subject = "/blobServices/default/containers/tilbudsaviser/blobs/netto_2026-uge02.pdf"
            -> Some("netto_2026-uge02.pdf")
      [] subject = "/blobServices/default/containers/tilbudsaviser/blobs/REMA_2026-UGE53.PDF"
            -> Some("REMA_2026-UGE53.PDF")
      [] subject = "/blobServices/default/containers/tilbudsaviser/blobs/lidl_2026-uge02.pdf"
            -> Some("lidl_2026-uge02.pdf")
      [] subject = "/blobServices/default/containers/tilbudsaviser/blobs/netto-uge2.pdf"
            -> Some("netto-uge2.pdf")
      [] subject = "/blobServices/default/containers/tilbudsaviser/blobs/notes.txt"
            -> Some("notes.txt")
      [] OTHER -> None

\* filename.lower().endswith('.pdf')
EndsWithPdf(filename) ==
    filename \in {"netto_2026-uge02.pdf", "REMA_2026-UGE53.PDF", "lidl_2026-uge02.pdf",
                  "netto-uge2.pdf"}

\* re.match(r'^([a-z0-9]+)_(\d{4})-uge(\d{1,2})$', name) of the lowered name without
\* '.pdf': None, or butik, year and week
FilenameMatch(filename) ==
    CASE filename = "netto_2026-uge02.pdf" -> Some([butik |-> "netto", year |-> 2026, week |-> 2])
      [] filename = "REMA_2026-UGE53.PDF" -> Some([butik |-> "rema", year |-> 2026, week |-> 53])
      [] filename = "lidl_2026-uge02.pdf" -> Some([butik |-> "lidl", year |-> 2026, week |-> 2])
      [] OTHER -> None

valid_stores == {"netto", "rema", "foetex", "bilka", "superbrugsen", "spar", "365discount"}

\* parse_filename(filename): None for a ValueError, or (butik, gyldig_fra, gyldig_til)
parse_filename(filename) ==
    LET match == FilenameMatch(filename) IN
    IF IsNone(match) THEN None
    ELSE IF Get(match).butik \notin valid_stores THEN None
    ELSE LET w == WeekByJan4(Get(match).year, Get(match).week)
         IN  Some([butik |-> Get(match).butik, gyldig_fra |-> w.fra, gyldig_til |-> w.til])

\* the offers of a ScanResult by status
CountStatus(offers, status) == Cardinality({ k \in 1..Len(offers) : offers[k] = status })

----------------------------------------------------------------------------
(* The state while a part of the program is not running                       *)

NoResult == [offers |-> <<>>, total_pages |-> 0, total_blocks |-> 0, offers_detected |-> 0]

ScannerIdle ==
    /\ has_client = FALSE
    /\ document = <<>>
    /\ offer_blocks = <<>>
    /\ result = NoResult
    /\ outcomes = <<>>
    /\ spc = "idle"

ConfidenceIdle ==
    /\ conf_in = None
    /\ conf_out = None

NoCall ==
    [op |-> "none", has_client |-> FALSE, enable_cache |-> FALSE, texts |-> <<>>,
     prices |-> <<>>, results |-> <<>>, cached_before |-> {}, evicted |-> {}, lm_sent |-> {},
     lm_failed |-> FALSE]

NormalizerIdle ==
    /\ cache = <<>>
    /\ ncall = NoCall
    /\ watched = None

FlyerIdle ==
    /\ retailer = "none"
    /\ pdf = <<>>
    /\ all_lines = <<>>
    /\ all_font_prices = <<>>
    /\ line_to_page = <<>>
    /\ blocks = <<>>
    /\ seen_products = <<>>
    /\ tilbud_raw = <<>>
    /\ tilbud = <<>>
    /\ block_i = 0
    /\ fpc = "idle"

RescanIdle ==
    /\ first_scan = None
    /\ scannet_tidspunkt = 0

LocatorIdle ==
    /\ locator = "none"
    /\ read_lines = <<>>
    /\ cur_line = None
    /\ span_i = 0
    /\ current_price_kr = None
    /\ current_price_kr_pos = None
    /\ current_price_kr_x = None
    /\ line_index = 0
    /\ page_lines = <<>>
    /\ page_font_prices = <<>>
    /\ lpc = "idle"

ColumnsIdle ==
    /\ col_retailer = "none"
    /\ page_width = 0
    /\ col_lines = <<>>
    /\ col_font_prices = <<>>
    /\ col_blocks = None

SkuIdle ==
    /\ sku_fields = None
    /\ sku_key = None
    /\ sku_parsed = None

UnitpriceIdle ==
    /\ up_offer = None
    /\ up_results = {}

StoreIdle ==
    /\ store_doc = None
    /\ store_detected = None
    /\ retailer_detected = None

WeekIdle ==
    /\ week_year = 0
    /\ week_num = 0
    /\ week_dates = {}

CategoryIdle ==
    /\ cat_cache = {}
    /\ cat_cache_timestamp = 0
    /\ cat_now = 0
    /\ cat_call = None

TriggerIdle ==
    /\ event = None
    /\ ppc = "idle"
    /\ parsed = None
    /\ scan_result = None
    /\ success = None
    /\ moves = <<>>

ClusterIdle ==
    /\ cl_retailer = "none"
    /\ cl_lines = <<>>
    /\ cl_font_price_lines = {}
    /\ cl_i = 0
    /\ cl_current_block_start = None
    /\ cl_current_block_x = 0
    /\ cl_blocks = <<>>
    /\ cl_pc = "idle"

UploadIdle ==
    /\ ul_max_retries = 0
    /\ ul_configured = FALSE
    /\ ul_attempt = 0
    /\ ul_v2_posts = <<>>
    /\ ul_v1_posts = <<>>
    /\ ul_returned = None
    /\ ul_pc = "idle"

SizedIdle ==
    /\ normalizer = None

CropIdle ==
    /\ cr_len_doc = 0
    /\ cr_enable_cropping = FALSE
    /\ cr_has_pymupdf = FALSE
    /\ cr_has_blob = FALSE
    /\ cr_document = <<>>
    /\ cr_offer_blocks = <<>>
    /\ cr_offers = <<>>
    /\ cr_pc = "idle"

UtilIdle ==
    /\ RescanIdle
    /\ LocatorIdle
    /\ ColumnsIdle
    /\ SkuIdle
    /\ UnitpriceIdle
    /\ StoreIdle
    /\ WeekIdle
    /\ CategoryIdle
    /\ TriggerIdle
    /\ ClusterIdle
    /\ UploadIdle
    /\ SizedIdle
    /\ CropIdle

\* all of UtilIdle but one group
BesidesRescanIdle ==
    /\ LocatorIdle
    /\ ColumnsIdle
    /\ SkuIdle
    /\ UnitpriceIdle
    /\ StoreIdle
    /\ WeekIdle
    /\ CategoryIdle
    /\ TriggerIdle
    /\ ClusterIdle
    /\ UploadIdle
    /\ SizedIdle
    /\ CropIdle

BesidesLocatorIdle ==
    /\ RescanIdle
    /\ ColumnsIdle
    /\ SkuIdle
    /\ UnitpriceIdle
    /\ StoreIdle
    /\ WeekIdle
    /\ CategoryIdle
    /\ TriggerIdle
    /\ ClusterIdle
    /\ UploadIdle
    /\ SizedIdle
    /\ CropIdle

BesidesColumnsIdle ==
    /\ RescanIdle
    /\ LocatorIdle
    /\ SkuIdle
    /\ UnitpriceIdle
    /\ StoreIdle
    /\ WeekIdle
    /\ CategoryIdle
    /\ TriggerIdle
    /\ ClusterIdle
    /\ UploadIdle
    /\ SizedIdle
    /\ CropIdle

BesidesSkuIdle ==
    /\ RescanIdle
    /\ LocatorIdle
    /\ ColumnsIdle
    /\ UnitpriceIdle
    /\ StoreIdle
    /\ WeekIdle
    /\ CategoryIdle
    /\ TriggerIdle
    /\ ClusterIdle
    /\ UploadIdle
    /\ SizedIdle
    /\ CropIdle

BesidesUnitpriceIdle ==
    /\ RescanIdle
    /\ LocatorIdle
    /\ ColumnsIdle
    /\ SkuIdle
    /\ StoreIdle
    /\ WeekIdle
    /\ CategoryIdle
    /\ TriggerIdle
    /\ ClusterIdle
    /\ UploadIdle
    /\ SizedIdle
    /\ CropIdle

BesidesStoreIdle ==
    /\ RescanIdle
    /\ LocatorIdle
    /\ ColumnsIdle
    /\ SkuIdle
    /\ UnitpriceIdle
    /\ WeekIdle
    /\ CategoryIdle
    /\ TriggerIdle
    /\ ClusterIdle
    /\ UploadIdle
    /\ SizedIdle
    /\ CropIdle

BesidesWeekIdle ==
    /\ RescanIdle
    /\ LocatorIdle
    /\ ColumnsIdle
    /\ SkuIdle
    /\ UnitpriceIdle
    /\ StoreIdle
    /\ CategoryIdle
    /\ TriggerIdle
    /\ ClusterIdle
    /\ UploadIdle
    /\ SizedIdle
    /\ CropIdle

BesidesCategoryIdle ==
    /\ RescanIdle
    /\ LocatorIdle
    /\ ColumnsIdle
    /\ SkuIdle
    /\ UnitpriceIdle
    /\ StoreIdle
    /\ WeekIdle
    /\ TriggerIdle
    /\ ClusterIdle
    /\ UploadIdle
    /\ SizedIdle
    /\ CropIdle

BesidesTriggerIdle ==
    /\ RescanIdle
    /\ LocatorIdle
    /\ ColumnsIdle
    /\ SkuIdle
    /\ UnitpriceIdle
    /\ StoreIdle
    /\ WeekIdle
    /\ CategoryIdle
    /\ ClusterIdle
    /\ UploadIdle
    /\ SizedIdle
    /\ CropIdle

BesidesClusterIdle ==
    /\ RescanIdle
    /\ LocatorIdle
    /\ ColumnsIdle
    /\ SkuIdle
    /\ UnitpriceIdle
    /\ StoreIdle
    /\ WeekIdle
    /\ CategoryIdle
    /\ TriggerIdle
    /\ UploadIdle
    /\ SizedIdle
    /\ CropIdle

BesidesUploadIdle ==
    /\ RescanIdle
    /\ LocatorIdle
    /\ ColumnsIdle
    /\ SkuIdle
    /\ UnitpriceIdle
    /\ StoreIdle
    /\ WeekIdle
    /\ CategoryIdle
    /\ TriggerIdle
    /\ ClusterIdle
    /\ SizedIdle
    /\ CropIdle

BesidesSizedIdle ==
    /\ RescanIdle
    /\ LocatorIdle
    /\ ColumnsIdle
    /\ SkuIdle
    /\ UnitpriceIdle
    /\ StoreIdle
    /\ WeekIdle
    /\ CategoryIdle
    /\ TriggerIdle
    /\ ClusterIdle
    /\ UploadIdle
    /\ CropIdle

BesidesCropIdle ==
    /\ RescanIdle
    /\ LocatorIdle
    /\ ColumnsIdle
    /\ SkuIdle
    /\ UnitpriceIdle
    /\ StoreIdle
    /\ WeekIdle
    /\ CategoryIdle
    /\ TriggerIdle
    /\ ClusterIdle
    /\ UploadIdle
    /\ SizedIdle
----------------------------------------------------------------------------
(* ScannerV2.scan / RemaScanner.scan as a state machine                      *)

\* The font prices a flyer of n lines with texts tx can carry.  In RemaScanner a
\* skip line gives no font price ('if is_skip: continue'); in ScannerV2 it can.
FontPriceChoices(r, n, tx) ==
    { f \in [1..n -> {0} \cup Values] :
        /\ Cardinality({i \in 1..n : f[i] # 0}) <= MaxAnchors
        /\ r = "rema" => \A i \in 1..n : f[i] # 0 => ~IsSkipLine(tx[i]) }

\* The clusterer compares distances only: the first line sits at the smallest x
XChoices(n) == { f \in [1..n -> Xs] : \A x \in Xs : f[1] <= x }

\* Pages follow each other
PageChoices(n) == { g \in [1..n -> Pages] : \A i \in 1..(n - 1) : g[i] <= g[i + 1] }

InitFlyer ==
    /\ NormalizerIdle /\ ScannerIdle /\ ConfidenceIdle /\ UtilIdle
    /\ retailer \in {"netto", "rema"}
    /\ \E n \in 1..MaxLines :
         \E tx \in [1..n -> Texts], xs \in XChoices(n), pg \in PageChoices(n) :
            \E fp \in FontPriceChoices(retailer, n, tx) :
               pdf = MkPdf(n, tx, xs, fp, pg)
    /\ all_lines = <<>>
    /\ all_font_prices = <<>>
    /\ line_to_page = <<>>
    /\ blocks = <<>>
    /\ seen_products = <<>>
    /\ tilbud_raw = <<>>
    /\ tilbud = <<>>
    /\ block_i = 0
    /\ fpc = "extract"

\* scan(), the loop over selected_pages
Extract ==
    /\ fpc = "extract"
    /\ LET acc == ExtractPages(pdf, 1,
                     [lines |-> <<>>, font_prices |-> <<>>, line_to_page |-> <<>>])
       IN  /\ all_lines' = acc.lines
           /\ all_font_prices' = acc.font_prices
           /\ line_to_page' = acc.line_to_page
    /\ fpc' = "blocks"
    /\ UNCHANGED <<retailer, pdf, blocks, seen_products, tilbud_raw, tilbud, block_i>>
    /\ UNCHANGED <<normVars, scanVars, confVars, utilVars>>

\* scan(): blocks = self._find_product_blocks(...)
FindBlocks ==
    /\ fpc = "blocks"
    /\ blocks' = _find_product_blocks(retailer, all_lines, line_to_page, all_font_prices)
    /\ fpc' = "offers"
    /\ UNCHANGED <<retailer, pdf, all_lines, all_font_prices, line_to_page,
                   seen_products, tilbud_raw, tilbud, block_i>>
    /\ UNCHANGED <<normVars, scanVars, confVars, utilVars>>

\* scan(): one turn of 'for block in blocks: offer = self._block_to_offer(...)'
BlockToOffer ==
    /\ fpc = "offers"
    /\ block_i < Len(blocks)
    /\ LET res == _block_to_offer(retailer, seen_products, blocks[block_i + 1],
                                  all_lines, all_font_prices, block_i + 1)
       IN  /\ seen_products' = res.seen
           /\ tilbud_raw' = IF IsNone(res.offer) THEN tilbud_raw
                            ELSE Append(tilbud_raw, Get(res.offer))
    /\ block_i' = block_i + 1
    /\ UNCHANGED <<retailer, pdf, all_lines, all_font_prices, line_to_page, blocks,
                   tilbud, fpc>>
    /\ UNCHANGED <<normVars, scanVars, confVars, utilVars>>

\* what datetime.now() can read: the clock does not run backwards between two calls
Clock == 1..2

\* scan(): tilbud = [t for t in tilbud_raw if self._is_valid_product(t)], and return
\* {"meta": {..., "scannet_tidspunkt": datetime.now().isoformat(), ...}, "tilbud": tilbud}
FilterAndReturn ==
    /\ fpc = "offers"
    /\ block_i = Len(blocks)
    /\ tilbud' = SelectSeq(tilbud_raw, LAMBDA t : _is_valid_product(retailer, t))
    /\ scannet_tidspunkt' \in { t \in Clock : t >= scannet_tidspunkt }
    /\ fpc' = "done"
    /\ UNCHANGED <<retailer, pdf, all_lines, all_font_prices, line_to_page, blocks,
                   seen_products, tilbud_raw, block_i>>
    /\ UNCHANGED <<normVars, scanVars, confVars, first_scan, besidesRescanVars>>

NextFlyer == Extract \/ FindBlocks \/ BlockToOffer \/ FilterAndReturn

SpecFlyer == InitFlyer /\ [][NextFlyer]_vars

----------------------------------------------------------------------------
(* The callers of OpenAINormalizer as a state machine: any sequence of        *)
(* normalize and normalize_batch calls on the process-wide cache              *)

\* the (product_text, price) pairs of the calls: three cache keys, one of them
\* reached by two spellings and by two prices
NInputs == { <<<<"Cola">>, None>>, <<<<"COLA">>, None>>, <<<<"Spar 5">>, None>>,
             <<<<"Cola">>, Some(10000)>>, <<<<"Cola">>, Some(10004)>> }
NLmOutcomes == { lm \in LmOutcomes : lm.kind = "object" => Get(lm.data) = ReplyFull }
BTexts == {<<"Cola">>, <<"Spar 5">>}              \* products of normalize_batch
BatchSizes == {0, 1, 10}                          \* batch_size of normalize_batch

\* the watched call lives until its key leaves the cache
Decay(w, evicted) ==
    IF IsNone(w) THEN None
    ELSE Some([Get(w) EXCEPT !.live = @ /\ Get(w).key \notin evicted])

\* the calls that can be kept for comparison
Watchable(product_text, price) == product_text = <<"Cola">> /\ IsNone(price)

\* normalize(product_text, price) on some normalizer of the process
NormalizeCall ==
    \E inst \in Insts, input \in NInputs, lm \in NLmOutcomes, watch \in BOOLEAN :
        LET product_text == input[1]
            price == input[2]
            cache_key == _get_cache_key(product_text, price)
            r == normalize(inst, cache, product_text, price, lm)
        IN  /\ ncall = NoCall
            /\ watch => Watchable(product_text, price)
            /\ cache' = r.cache
            /\ ncall' = [op |-> "normalize",
                         has_client |-> inst.has_client,
                         enable_cache |-> inst.enable_cache,
                         texts |-> <<product_text>>,
                         prices |-> <<price>>,
                         results |-> <<r.result>>,
                         cached_before |-> IF cache_key \in CacheKeys(cache) THEN {1} ELSE {},
                         evicted |-> r.evicted,
                         lm_sent |-> IF r.lm_called THEN {1} ELSE {},
                         lm_failed |-> r.lm_failed]
            /\ watched' = IF watch
                          THEN Some([key |-> cache_key, result |-> r.result,
                                     live |-> inst.enable_cache])
                          ELSE Decay(watched, r.evicted)
            /\ UNCHANGED <<flyerVars, scanVars, confVars, utilVars>>

\* What the LM does on one batch call of nb products: raise, answer no JSON, or answer
\* a list: too few, as many or too many objects, or something that is no object
BatchReplyOutcomes(nb) ==
    { [kind |-> k, items |-> <<>>] : k \in {"raises", "invalid_json"} }
    \cup { [kind |-> "list", items |-> [j \in 1..m |-> Some(ReplyFull)]] :
              m \in {0, nb, nb + 1} }
    \cup { [kind |-> "list", items |-> <<None>>],
           [kind |-> "list", items |-> <<Some(ReplyFull), None>>] }

\* normalize_batch(products, prices, batch_size) on some normalizer of the process
NormalizeBatchCall ==
    \E inst \in Insts, n \in 0..MaxBatch, batch_size \in BatchSizes :
      \E products \in [1..n -> BTexts] :
        LET prices == [k \in 1..n |-> None]
            gpt == BatchUsesGpt(inst, batch_size)
            nb == Min(Min(batch_size, 10), n)
            calls == IF gpt THEN BatchCount(n, Min(batch_size, 10)) ELSE 0
        IN  \E replies \in [1..calls -> BatchReplyOutcomes(nb)] :
              \E lms \in [1..(IF gpt \/ ~inst.has_client THEN 0 ELSE n) -> NLmOutcomes] :
                LET lmseq == [k \in 1..n |-> IF k \in DOMAIN lms THEN lms[k]
                                             ELSE [kind |-> "raises", data |-> None]]
                    r == normalize_batch(inst, cache, products, prices, batch_size,
                                         replies, lmseq)
                IN  /\ ncall = NoCall
                    /\ cache' = r.cache
                    /\ ncall' = [op |-> "batch",
                                 has_client |-> inst.has_client,
                                 enable_cache |-> inst.enable_cache,
                                 texts |-> products,
                                 prices |-> prices,
                                 results |-> r.results,
                                 cached_before |->
                                    { k \in 1..n :
                                        _get_cache_key(products[k], prices[k])
                                            \in CacheKeys(cache) },
                                 evicted |-> r.evicted,
                                 lm_sent |-> r.lm_sent,
                                 lm_failed |-> FALSE]
                    /\ watched' = Decay(watched, r.evicted)
                    /\ UNCHANGED <<flyerVars, scanVars, confVars, utilVars>>

\* OpenAINormalizer.clear_cache()
ClearCache ==
    /\ ncall = NoCall
    /\ cache # <<>>
    /\ cache' = <<>>
    /\ ncall' = [NoCall EXCEPT !.op = "clear_cache", !.evicted = CacheKeys(cache)]
    /\ watched' = Decay(watched, CacheKeys(cache))
    /\ UNCHANGED <<flyerVars, scanVars, confVars, utilVars>>

\* the caller has the result of the call; the next call can start
CallReturned ==
    /\ ncall # NoCall
    /\ ncall' = NoCall
    /\ UNCHANGED <<cache, watched, flyerVars, scanVars, confVars, utilVars>>

NextNormalizer == NormalizeCall \/ NormalizeBatchCall \/ ClearCache \/ CallReturned

----------------------------------------------------------------------------
(* Scanner.scan as a state machine                                           *)

TextBlocks == { [text |-> t, cx |-> p[1], cy |-> p[2]] : t \in DTexts, p \in Positions }

\* the pages of n TextBlocks, listed from top to bottom as the layout service reads
\* them; two blocks of a page do not share a place
PagesOf(n) ==
    { f \in [1..n -> TextBlocks] : \A i, j \in 1..n : i < j => f[i].cy < f[j].cy }

\* the normalizer Scanner.__init__ builds: enable_cache and max_cache_size by default
ScannerNormalizer ==
    [has_client |-> has_client, enable_cache |-> TRUE, max_cache_size |-> MaxCacheSize]

InitScanner ==
    /\ FlyerIdle /\ NormalizerIdle /\ ConfidenceIdle /\ UtilIdle
    /\ has_client \in BOOLEAN
    /\ document = <<>>
    /\ offer_blocks = <<>>
    /\ result = NoResult
    /\ outcomes = <<>>
    /\ spc = "layout"

\* the two-page documents of at most MaxBlocks TextBlocks
Documents ==
    UNION { { <<p1, p2>> : p1 \in PagesOf(n[1]), p2 \in PagesOf(n[2]) } :
            n \in { m \in (0..MaxBlocks) \X (0..MaxBlocks) : m[1] + m[2] <= MaxBlocks } }

\* scan(): document = self.layout_service.analyze_pdf(pdf_content) returns
AnalyzePdf ==
    /\ spc = "layout"
    /\ document' \in Documents
    /\ result' = [result EXCEPT !.total_pages = Len(document'),
                                !.total_blocks = Len(document'[1]) + Len(document'[2])]
    /\ spc' = "detect"
    /\ UNCHANGED <<has_client, offer_blocks, outcomes>>
    /\ UNCHANGED <<flyerVars, normVars, confVars, utilVars>>

\* scan(): analyze_pdf raises; nothing in scan() catches it
AnalyzePdfRaises ==
    /\ spc = "layout"
    /\ spc' = "raised"
    /\ UNCHANGED <<has_client, document, offer_blocks, result, outcomes>>
    /\ UNCHANGED <<flyerVars, normVars, confVars, utilVars>>

\* scan(): offer_blocks = self.offer_detector.detect_offers(document)
DetectOffers ==
    /\ spc = "detect"
    /\ offer_blocks' = detect_offers(document, 1)
    /\ result' = [result EXCEPT !.offers_detected = Len(detect_offers(document, 1))]
    /\ spc' = "process"
    /\ UNCHANGED <<has_client, document, outcomes>>
    /\ UNCHANGED <<flyerVars, normVars, confVars, utilVars>>

\* scan(): one turn of 'for block in offer_blocks' in which _process_offer_block returns
ProcessOfferBlock ==
    /\ spc = "process"
    /\ Len(outcomes) < Len(offer_blocks)
    /\ LET bi == Len(outcomes) + 1
           block == offer_blocks[bi]
       IN  IF IsNone(block.price)
           THEN UNCHANGED <<result, cache>>
           ELSE \E lm \in LmOutcomes :
                  LET p == _process_offer_block(ScannerNormalizer, cache, block, bi, lm)
                  IN  /\ cache' = p.cache
                      /\ \E offer \in p.offers :
                            result' = [result EXCEPT !.offers = Append(@, offer)]
    /\ outcomes' = Append(outcomes, "ok")
    /\ UNCHANGED <<has_client, document, offer_blocks, spc, ncall, watched>>
    /\ UNCHANGED <<flyerVars, confVars, utilVars>>

\* the loop without its 'except Exception': the exception leaves scan()
Mutant_ProcessOfferBlockRaises ==
    /\ spc = "process"
    /\ Len(outcomes) < Len(offer_blocks)
    /\ spc' = "raised"
    /\ outcomes' = Append(outcomes, "raised")
    /\ UNCHANGED <<has_client, document, offer_blocks, result, normVars>>
    /\ UNCHANGED <<flyerVars, confVars, utilVars>>

\* scan(): one turn of the loop in which _process_offer_block raises, before
\* normalize has stored its result or after; 'except Exception' logs it
ProcessOfferBlockRaises ==
    /\ spc = "process"
    /\ Len(outcomes) < Len(offer_blocks)
    /\ LET bi == Len(outcomes) + 1
           block == offer_blocks[bi]
       IN  \/ cache' = cache
           \/ \E lm \in LmOutcomes :
                cache' = _process_offer_block(ScannerNormalizer, cache, block, bi, lm).cache
    /\ outcomes' = Append(outcomes, "raised")
    /\ UNCHANGED <<has_client, document, offer_blocks, result, spc, ncall, watched>>
    /\ UNCHANGED <<flyerVars, confVars, utilVars>>

\* scan(): return result
ReturnResult ==
    /\ spc = "process"
    /\ Len(outcomes) = Len(offer_blocks)
    /\ spc' = "done"
    /\ UNCHANGED <<has_client, document, offer_blocks, result, outcomes>>
    /\ UNCHANGED <<flyerVars, normVars, confVars, utilVars>>

NextScanner ==
    \/ AnalyzePdf
    \/ AnalyzePdfRaises
    \/ DetectOffers
    \/ ProcessOfferBlock
    \/ ProcessOfferBlockRaises
    \/ ReturnResult

SpecScanner == InitScanner /\ [][NextScanner]_vars

\* scan() going on after analyze_pdf has returned: the statement reached is left, and
\* the loop takes its next block
ScanAdvances ==
    /\ spc \in {"detect", "process"}
    /\ spc' \in {"process", "done"}
    /\ outcomes' \in {outcomes, Append(outcomes, "ok"), Append(outcomes, "raised")}

\* scan() is one sequential call: while it has not returned, it goes on
SpecScannerFair == SpecScanner /\ WF_<<spc, outcomes>>(ScanAdvances)

----------------------------------------------------------------------------
(* calculate_confidence and get_status_from_confidence called on their own   *)

ConfidenceInputs ==
    { [detection_confidence |-> d, has_price |-> hp, price_value |-> pv,
       has_amount |-> ha, net_amount_value |-> av, net_amount_unit |-> au,
       gpt_confidence |-> g, brand_norm |-> b, product_norm |-> pn[1],
       product_norm_set |-> pn[2], category |-> c, container_type |-> ct,
       has_unit_price |-> up] :
        d \in {35, 65, 100}, hp \in BOOLEAN,
        pv \in {None, Some(500), Some(25000), Some(6000000)},
        ha \in BOOLEAN, av \in {None, Some(1500), Some(0 - 1)},
        au \in {None, Some("ml"), Some("oz")},
        g \in {50, 90}, b \in {None, Some(<<"Cola">>)},
        pn \in {<< <<>>, FALSE >>, << <<>>, TRUE >>, << <<"Cola">>, TRUE >>},
        c \in {"Andet", "Drikkevarer"}, ct \in {None, Some("BOTTLE")},
        up \in BOOLEAN }

InitConfidence ==
    /\ FlyerIdle /\ NormalizerIdle /\ ScannerIdle /\ UtilIdle
    /\ conf_in \in { Some(i) : i \in ConfidenceInputs }
    /\ conf_out = None

\* calculate_confidence(input), then get_status_from_confidence(result.overall)
CalculateConfidence ==
    /\ ~IsNone(conf_in)
    /\ IsNone(conf_out)
    /\ \E overall \in calculate_confidence(Get(conf_in)) :
          conf_out' = Some([overall |-> overall,
                            status |-> get_status_from_confidence(overall)])
    /\ UNCHANGED <<conf_in, flyerVars, normVars, scanVars, utilVars>>

NextConfidence == CalculateConfidence

----------------------------------------------------------------------------
(* Specifications                                                            *)

InitNormalizer == FlyerIdle /\ ScannerIdle /\ ConfidenceIdle /\ NormalizerIdle /\ UtilIdle

\* callers of the normalizer
SpecNormalizer == InitNormalizer /\ [][NextNormalizer]_vars

\* the two block builders: _find_product_blocks of the flyer scanners and OfferDetector
SpecBlocks == (InitFlyer \/ InitScanner) /\ [][NextFlyer \/ NextScanner]_vars

\* Scanner.scan and calculate_confidence on inputs of its own
SpecStatus == (InitScanner \/ InitConfidence) /\ [][NextScanner \/ NextConfidence]_vars

----------------------------------------------------------------------------
(* scan() called a second time on the same PDF                                *)

\* what ScannerV2.scan / RemaScanner.scan returned: the offers and the meta field
\* that is read from the clock (the other fields are functions of the file)
FlyerReturn == [tilbud |-> tilbud, scannet_tidspunkt |-> scannet_tidspunkt]

\* the caller keeps what scan(pdf_path) returned and calls it again on the same file:
\* scan() starts with self._seen_products = {} and empty lists
FlyerScanAgain ==
    /\ fpc = "done"
    /\ IsNone(first_scan)
    /\ first_scan' = Some(FlyerReturn)
    /\ all_lines' = <<>>
    /\ all_font_prices' = <<>>
    /\ line_to_page' = <<>>
    /\ blocks' = <<>>
    /\ seen_products' = <<>>
    /\ tilbud_raw' = <<>>
    /\ tilbud' = <<>>
    /\ block_i' = 0
    /\ fpc' = "extract"
    /\ UNCHANGED <<retailer, pdf, scannet_tidspunkt>>
    /\ UNCHANGED <<normVars, scanVars, confVars, besidesRescanVars>>

MaxRescanBlocks == 2   \* TextBlocks of a document that is scanned twice

\* the caller keeps the ScanResult and calls Scanner.scan(pdf_content) again: a new
\* ScanResult, and analyze_pdf returns the document of these bytes again
ScanAgain ==
    /\ spc = "done"
    /\ IsNone(first_scan)
    /\ result.total_blocks <= MaxRescanBlocks
    /\ first_scan' = Some(result)
    /\ result' = [NoResult EXCEPT !.total_pages = Len(document),
                                  !.total_blocks = Len(document[1]) + Len(document[2])]
    /\ offer_blocks' = <<>>
    /\ outcomes' = <<>>
    /\ spc' = "detect"
    /\ UNCHANGED <<has_client, document, scannet_tidspunkt>>
    /\ UNCHANGED <<flyerVars, normVars, confVars, besidesRescanVars>>

NextRescan ==
    \/ NextFlyer
    \/ FlyerScanAgain
    \/ NextScanner
    \/ ScanAgain
    \/ ClearCache
    \/ CallReturned

\* the flyer scanners and Scanner, each scanning one PDF twice, in a process in which
\* OpenAINormalizer.clear_cache() can be called
SpecRescan == (InitFlyer \/ InitScanner) /\ [][NextRescan]_vars

----------------------------------------------------------------------------
(* _extract_text_with_prices as a state machine: the walk over the lines and  *)
(* spans of one page                                                         *)

CoreIdle == FlyerIdle /\ NormalizerIdle /\ ScannerIdle /\ ConfidenceIdle
coreVars == <<flyerVars, normVars, scanVars, confVars>>

RECURSIVE SpansRead(_)
\* the number of spans in the lines walked
SpansRead(ls) == IF ls = <<>> THEN 0 ELSE Len(ls[1].spans) + SpansRead(Tail(ls))

InitLocator ==
    /\ CoreIdle /\ BesidesLocatorIdle
    /\ locator \in {"netto", "rema"}
    /\ read_lines = <<>>
    /\ cur_line = None
    /\ span_i = 0
    /\ current_price_kr = None
    /\ current_price_kr_pos = None
    /\ current_price_kr_x = None
    /\ line_index = 0
    /\ page_lines = <<>>
    /\ page_font_prices = <<>>
    /\ lpc = "walk"

\* 'for line in block["lines"]': the next line of the page, its spans and line_x
BeginLine ==
    /\ lpc = "walk"
    /\ IsNone(cur_line)
    /\ SpansRead(read_lines) < MaxSpans
    /\ \E line \in LinesOf(locator, MaxSpans - SpansRead(read_lines)) :
          cur_line' = Some(line)
    /\ span_i' = 0
    /\ UNCHANGED <<locator, read_lines, current_price_kr, current_price_kr_pos,
                   current_price_kr_x, line_index, page_lines, page_font_prices, lpc>>
    /\ UNCHANGED <<coreVars, besidesLocatorVars>>

\* ScannerV2: one turn of 'for span in spans'
NettoSpan ==
    /\ lpc = "walk"
    /\ locator = "netto"
    /\ ~IsNone(cur_line)
    /\ span_i < Len(Get(cur_line).spans)
    /\ LET r == NettoSpanStep(current_price_kr, current_price_kr_pos, current_price_kr_x,
                              Get(cur_line).spans[span_i + 1], line_index,
                              Get(cur_line).x)
       IN  /\ current_price_kr' = r.kr
           /\ current_price_kr_pos' = r.pos
           /\ current_price_kr_x' = r.x
           /\ page_font_prices' = page_font_prices \o r.emitted
    /\ span_i' = span_i + 1
    /\ UNCHANGED <<locator, read_lines, cur_line, line_index, page_lines, lpc>>
    /\ UNCHANGED <<coreVars, besidesLocatorVars>>

\* RemaScanner: one turn of 'for span in spans'
RemaSpan ==
    /\ lpc = "walk"
    /\ locator = "rema"
    /\ ~IsNone(cur_line)
    /\ span_i < Len(Get(cur_line).spans)
    /\ page_font_prices' = page_font_prices \o
          RemaSpanStep(RemaLineIsSkip(Get(cur_line).spans),
                       Get(cur_line).spans[span_i + 1], line_index, Get(cur_line).x)
    /\ span_i' = span_i + 1
    /\ UNCHANGED <<locator, read_lines, cur_line, current_price_kr, current_price_kr_pos,
                   current_price_kr_x, line_index, page_lines, lpc>>
    /\ UNCHANGED <<coreVars, besidesLocatorVars>>

\* after the span loop: line_stripped = self._clean_text(line_text); a line that is
\* not empty is appended and counted
EndLine ==
    /\ lpc = "walk"
    /\ ~IsNone(cur_line)
    /\ span_i = Len(Get(cur_line).spans)
    /\ LET line_stripped == _clean_text(LineText(Get(cur_line).spans))
       IN  IF line_stripped # <<>>
           THEN /\ page_lines' = Append(page_lines,
                                        [text |-> line_stripped, x |-> Get(cur_line).x])
                /\ line_index' = line_index + 1
           ELSE UNCHANGED <<page_lines, line_index>>
    /\ read_lines' = Append(read_lines, [x |-> Get(cur_line).x,
                                         spans |-> Get(cur_line).spans,
                                         line_index |-> line_index])
    /\ cur_line' = None
    /\ span_i' = 0
    /\ UNCHANGED <<locator, current_price_kr, current_price_kr_pos, current_price_kr_x,
                   page_font_prices, lpc>>
    /\ UNCHANGED <<coreVars, besidesLocatorVars>>

\* return lines, font_prices
ReturnLines ==
    /\ lpc = "walk"
    /\ IsNone(cur_line)
    /\ lpc' = "returned"
    /\ UNCHANGED <<locator, read_lines, cur_line, span_i, current_price_kr,
                   current_price_kr_pos, current_price_kr_x, line_index, page_lines,
                   page_font_prices>>
    /\ UNCHANGED <<coreVars, besidesLocatorVars>>

NextLocator == BeginLine \/ NettoSpan \/ RemaSpan \/ EndLine \/ ReturnLines

SpecLocator == InitLocator /\ [][NextLocator]_vars

----------------------------------------------------------------------------
(* _find_product_blocks on the lines of one page of a given width            *)

ColumnLines(w) ==
    UNION { [1..n -> { [text |-> t, x |-> LineX(p, w)] : t \in {"Cola", "Spar 5"},
                                                          p \in LinePositions }] :
            n \in 2..MaxColumnLines }

\* font prices on a set of lines, one for a line
ColumnFontPrices(lines, on) ==
    LET idx == SelectIdx(1, Len(lines), on)
    IN  [k \in 1..Len(idx) |->
            [value |-> 10, line_index |-> idx[k] - 1, x |-> lines[idx[k]].x]]

InitColumns ==
    /\ CoreIdle /\ BesidesColumnsIdle
    /\ col_retailer \in {"netto", "rema"}
    /\ page_width \in PageWidths
    /\ col_lines \in ColumnLines(page_width)
    /\ \E on \in SUBSET (1..Len(col_lines)) :
          col_font_prices = ColumnFontPrices(col_lines, on)
    /\ col_blocks = None

\* blocks = self._find_product_blocks(all_lines, line_to_page, all_font_prices)
FindProductBlocks ==
    /\ col_retailer # "none"
    /\ IsNone(col_blocks)
    /\ col_blocks' = Some(_find_product_blocks(col_retailer, col_lines,
                                               [k \in 1..Len(col_lines) |-> 1],
                                               col_font_prices))
    /\ UNCHANGED <<col_retailer, page_width, col_lines, col_font_prices>>
    /\ UNCHANGED <<coreVars, besidesColumnsVars>>

NextColumns == FindProductBlocks

SpecColumns == InitColumns /\ [][NextColumns]_vars

----------------------------------------------------------------------------
(* generate_sku_key, then parse_sku_key on the key                           *)

SkuTexts == { <<"C", "o", "l", "a">>, <<"Æ", "g">>, <<"a", " ", "-", "b">>,
              <<"a", "|", "b">>, <<"!">>, <<" ">>, NullStr, <<>> }
SkuBrands == { None, Some(<<"C", "o", "l", "a">>), Some(NullStr), Some(<<"!">>) }
SkuVariants == { None, Some(<<"Æ", "g">>) }
SkuContainers == { None, Some(<<"C", "A", "N">>) }
SkuValues == { None, Some(330), Some(1500), Some(2500), Some(500000) }   \* thousandths
SkuUnits == { None, Some(<<"L">>), Some(<<"m", "l">>), Some(<<"k", "g">>),
              Some(<<" ", "G", " ">>), Some(<<"s", "t", "k">>), Some(<<>>) }

InitSku ==
    /\ CoreIdle /\ BesidesSkuIdle
    /\ sku_fields \in { Some(f) : f \in [brand_norm : SkuBrands,
                                          product_norm : {None} \cup {Some(t) : t \in SkuTexts},
                                          variant_norm : SkuVariants,
                                          container_type : SkuContainers,
                                          net_amount_value : SkuValues,
                                          net_amount_unit : SkuUnits] }
    /\ sku_key = None
    /\ sku_parsed = None

\* sku_key = generate_sku_key(...)
GenerateSkuKey ==
    /\ ~IsNone(sku_fields)
    /\ IsNone(sku_key)
    /\ LET f == Get(sku_fields) IN
       sku_key' = Some(generate_sku_key(f.brand_norm, f.product_norm, f.variant_norm,
                                        f.container_type, f.net_amount_value,
                                        f.net_amount_unit))
    /\ UNCHANGED <<sku_fields, sku_parsed>>
    /\ UNCHANGED <<coreVars, besidesSkuVars>>

\* parse_sku_key(sku_key) of a key that was returned
ParseSkuKey ==
    /\ ~IsNone(sku_key)
    /\ ~Get(sku_key).raised
    /\ ~IsNone(Get(sku_key).value)
    /\ IsNone(sku_parsed)
    /\ sku_parsed' = Some(parse_sku_key(Get(Get(sku_key).value)))
    /\ UNCHANGED <<sku_fields, sku_key>>
    /\ UNCHANGED <<coreVars, besidesSkuVars>>

NextSku == GenerateSkuKey \/ ParseSkuKey

SpecSku == InitSku /\ [][NextSku]_vars

----------------------------------------------------------------------------
(* calculate_unit_price on one offer with its amount written in each unit of  *)
(* its base                                                                  *)

UpPrices == {525, 1000, 1050, 2000}     \* øre
UpDeposits == {None, Some(100)}
UpAmounts == {20, 33, 50, 100}          \* hundredths of the larger unit (kg or l)
UpPacks == {None, Some(3), Some(6)}

UnitsOfBase(larger) == IF larger = "kg" THEN {"kg", "g"} ELSE {"l", "dl", "cl", "ml"}

\* how many of the unit make one of the larger unit of its base
PerLarger(unit) ==
    CASE unit \in {"kg", "l"} -> 1
      [] unit = "dl" -> 10
      [] unit = "cl" -> 100
      [] unit \in {"g", "ml"} -> 1000

InitUnitPrice ==
    /\ CoreIdle /\ BesidesUnitpriceIdle
    /\ up_offer \in { Some(o) : o \in [price_value : {Some(p) : p \in UpPrices},
                                        deposit_value : UpDeposits,
                                        amount : UpAmounts,
                                        larger : {"kg", "l"},
                                        pack_count : UpPacks] }
    /\ up_results = {}

\* calculate_unit_price(price, deposit, the amount in unit u, u, pack_count)
CalculateUnitPrice ==
    /\ ~IsNone(up_offer)
    /\ LET o == Get(up_offer) IN
       \E u \in UnitsOfBase(o.larger) :
          /\ \A r \in up_results : r.unit # u
          /\ up_results' = up_results \cup
                { [unit |-> u,
                   unit_price |-> calculate_unit_price(o.price_value, o.deposit_value,
                                      Some(o.amount * PerLarger(u)), Some(u),
                                      o.pack_count)] }
    /\ UNCHANGED up_offer
    /\ UNCHANGED <<coreVars, besidesUnitpriceVars>>

NextUnitPrice == CalculateUnitPrice

SpecUnitPrice == InitUnitPrice /\ [][NextUnitPrice]_vars

----------------------------------------------------------------------------
(* detect_store on a PDF and _detect_retailer on the text of its first page   *)

MaxStorePages == 4
PageTexts == { <<"N", "e", "t", "t", "o">>,
               <<"f", "ø", "t", "e", "x">>,
               <<"n", "e", "t", "t", "o", " ", "e", "u", "r", "o", "s", "p", "a", "r">>,
               <<"r", "e", "m", "a", " ", "1", "0", "0", "0">>,
               <<"s", "a", "l", "l", "i", "n", "g">>,
               <<"t", "i", "l", "b", "u", "d">> }
StoreDocs == [readable : BOOLEAN,
              pages : UNION { [1..n -> PageTexts] : n \in 1..MaxStorePages }]

InitStore ==
    /\ CoreIdle /\ BesidesStoreIdle
    /\ store_doc \in { Some(doc) : doc \in StoreDocs }
    /\ store_detected = None
    /\ retailer_detected = None

\* store = detect_store(pdf_content)
DetectStore ==
    /\ ~IsNone(store_doc)
    /\ IsNone(store_detected)
    /\ store_detected' = Some(detect_store(Get(store_doc)))
    /\ UNCHANGED <<store_doc, retailer_detected>>
    /\ UNCHANGED <<coreVars, besidesStoreVars>>

\* document.retailer_detected, document.retailer_confidence =
\*     self._detect_retailer(first_page_text)
DetectRetailer ==
    /\ ~IsNone(store_doc)
    /\ Get(store_doc).readable
    /\ IsNone(retailer_detected)
    /\ retailer_detected' = Some(_detect_retailer(LowerChars(Get(store_doc).pages[1])))
    /\ UNCHANGED <<store_doc, store_detected>>
    /\ UNCHANGED <<coreVars, besidesStoreVars>>

NextStore == DetectStore \/ DetectRetailer

SpecStore == InitStore /\ [][NextStore]_vars

----------------------------------------------------------------------------
(* 'uge NN' of one year through each of the week computations                 *)

WeekYears == 2020..2030      \* January 1 on every day of the week, leap years
WeekNumbers == {0, 1, 2, 26, 52, 53, 99}

InitWeek ==
    /\ CoreIdle /\ BesidesWeekIdle
    /\ week_year \in WeekYears
    /\ week_num \in WeekNumbers
    /\ week_dates = {}

NotComputedBy(f) == \A r \in week_dates : r.by # f

\* DocumentIntelligenceService._detect_validity, pattern 1
DetectValidity ==
    /\ week_year # 0
    /\ NotComputedBy("_detect_validity")
    /\ week_dates' = week_dates \cup
          { [by |-> "_detect_validity", dates |-> WeekByJan4(week_year, week_num)] }
    /\ UNCHANGED <<week_year, week_num>>
    /\ UNCHANGED <<coreVars, besidesWeekVars>>

\* parse_filename
ParseFilename ==
    /\ week_year # 0
    /\ NotComputedBy("parse_filename")
    /\ week_dates' = week_dates \cup
          { [by |-> "parse_filename", dates |-> WeekByJan4(week_year, week_num)] }
    /\ UNCHANGED <<week_year, week_num>>
    /\ UNCHANGED <<coreVars, besidesWeekVars>>

\* ScannerV2._extract_validity_period and RemaScanner._extract_validity_period,
\* pattern 'uge X'
ExtractValidityPeriod ==
    /\ week_year # 0
    /\ \E r \in {"netto", "rema"} :
          /\ NotComputedBy(r)
          /\ week_dates' = week_dates \cup
                { [by |-> r, dates |-> WeekByJan1(week_year, week_num)] }
    /\ UNCHANGED <<week_year, week_num>>
    /\ UNCHANGED <<coreVars, besidesWeekVars>>

NextWeek == DetectValidity \/ ParseFilename \/ ExtractValidityPeriod

SpecWeek == InitWeek /\ [][NextWeek]_vars

----------------------------------------------------------------------------
(* CategoryService.get_categories under a running clock                      *)

NowStart == 1000
MaxNow == 1610
ClockSteps == {149, 150, 151}

\* what the API answers: lists of Category, one with an id twice
ApiCategories ==
    { <<>>,
      <<[id |-> "mejeri", sort_order |-> 100]>>,
      <<[id |-> "mejeri", sort_order |-> 100], [id |-> "vin", sort_order |-> 100]>>,
      <<[id |-> "mejeri", sort_order |-> 100], [id |-> "mejeri", sort_order |-> 5]>> }

InitCategory ==
    /\ CoreIdle /\ BesidesCategoryIdle
    /\ cat_cache = {}
    /\ cat_cache_timestamp = 0
    /\ cat_now = NowStart
    /\ cat_call = None

\* time passes
ClockTick ==
    /\ cat_now # 0
    /\ \E s \in ClockSteps :
          /\ cat_now + s <= MaxNow
          /\ cat_now' = cat_now + s
    /\ UNCHANGED <<cat_cache, cat_cache_timestamp, cat_call>>
    /\ UNCHANGED <<coreVars, besidesCategoryVars>>

\* get_categories(force_refresh), the API answering or failing
GetCategories ==
    /\ cat_now # 0
    /\ \E force_refresh \in BOOLEAN, api \in {None} \cup {Some(a) : a \in ApiCategories} :
          LET r == get_categories(cat_cache, cat_cache_timestamp, cat_now, force_refresh, api)
          IN  /\ cat_cache' = r.cache
              /\ cat_cache_timestamp' = r.cache_timestamp
              /\ cat_call' = Some([force_refresh |-> force_refresh,
                                   cache_before |-> cat_cache,
                                   age_before |-> cat_now - cat_cache_timestamp,
                                   fetched |-> r.fetched,
                                   failed |-> r.failed,
                                   returned |-> r.returned])
    /\ UNCHANGED cat_now
    /\ UNCHANGED <<coreVars, besidesCategoryVars>>

NextCategory == ClockTick \/ GetCategories

SpecCategory == InitCategory /\ [][NextCategory]_vars

----------------------------------------------------------------------------
(* process_tilbudsavis on one event, from the trigger to its return           *)

EventTypes == {"Microsoft.Storage.BlobCreated", "Microsoft.Storage.BlobDeleted"}

\* what scan_pdf_v2 returns: the status of each offer, the retailer and the version
ScanResults ==
    [offers : {<<>>, <<"published">>, <<"needs_review", "published">>, <<"low_confidence">>},
     retailer : {None, Some("netto")},
     scanner_version : {"2.0.0"}]

InitTrigger ==
    /\ CoreIdle /\ BesidesTriggerIdle
    /\ event \in { Some(e) : e \in [event_type : EventTypes, url : BlobUrls,
                                      subject : Subjects] }
    /\ ppc = "start"
    /\ parsed = None
    /\ scan_result = None
    /\ success = None
    /\ moves = <<>>

\* the event is one that process_tilbudsavis works on
Accepted(e) ==
    /\ e.event_type = "Microsoft.Storage.BlobCreated"
    /\ InTilbudsaviser(e.url)
    /\ ~IsNone(FilenameOf(e.subject))
    /\ EndsWithPdf(Get(FilenameOf(e.subject)))

move_blob(destination, metadata) ==
    Append(moves, [destination |-> destination, metadata |-> metadata])

\* the three early returns: another event type, another container, no PDF name
IgnoreEvent ==
    /\ ppc = "start"
    /\ ~Accepted(Get(event))
    /\ ppc' = "returned"
    /\ UNCHANGED <<event, parsed, scan_result, success, moves>>
    /\ UNCHANGED <<coreVars, besidesTriggerVars>>

\* butik, gyldig_fra, gyldig_til = parse_filename(filename), and 'except ValueError'
ParseTheFilename ==
    /\ ppc = "start"
    /\ Accepted(Get(event))
    /\ LET p == parse_filename(Get(FilenameOf(Get(event).subject))) IN
       IF IsNone(p)
       THEN /\ moves' = move_blob("failed", [error |-> "error"])
            /\ ppc' = "returned"
            /\ UNCHANGED parsed
       ELSE /\ parsed' = p
            /\ ppc' = "download"
            /\ UNCHANGED moves
    /\ UNCHANGED <<event, scan_result, success>>
    /\ UNCHANGED <<coreVars, besidesTriggerVars>>

\* pdf_content = download_blob(filename): None or empty bytes, or the content
DownloadBlob ==
    /\ ppc = "download"
    /\ \E pdf_content \in {"none", "empty", "bytes"} :
          IF pdf_content # "bytes"
          THEN /\ moves' = move_blob("failed", [error |-> "Download failed"])
               /\ ppc' = "returned"
          ELSE /\ ppc' = "scan"
               /\ UNCHANGED moves
    /\ UNCHANGED <<event, parsed, scan_result, success>>
    /\ UNCHANGED <<coreVars, besidesTriggerVars>>

\* scan_result = scan_pdf_v2(pdf_content, butik) with the return after it
\* missing: the upload goes on after 'No offers extracted'
Mutant_ScanPdf ==
    /\ ppc = "scan"
    /\ \/ /\ moves' = move_blob("failed", [error |-> "error"])
          /\ ppc' = "returned"
          /\ UNCHANGED <<parsed, scan_result>>
       \/ \E r \in ScanResults :
             /\ scan_result' = Some(r)
             /\ parsed' = IF IsNone(r.retailer) THEN parsed
                           ELSE Some([Get(parsed) EXCEPT !.butik = Get(r.retailer)])
             /\ ppc' = "upload"
             /\ moves' = IF r.offers = <<>>
                          THEN move_blob("failed", [error |-> "No offers extracted"]) ELSE moves
    /\ UNCHANGED <<event, success>>
    /\ UNCHANGED <<coreVars, besidesTriggerVars>>

\* scan_result = scan_pdf_v2(pdf_content, butik): it raises, or returns a ScanResult;
\* then the detected retailer and 'if not scan_result.offers'
ScanPdf ==
    /\ ppc = "scan"
    /\ \/ /\ moves' = move_blob("failed", [error |-> "error"])
          /\ ppc' = "returned"
          /\ UNCHANGED <<parsed, scan_result>>
       \/ \E r \in ScanResults :
             /\ scan_result' = Some(r)
             /\ parsed' = IF IsNone(r.retailer) THEN parsed
                           ELSE Some([Get(parsed) EXCEPT !.butik = Get(r.retailer)])
             /\ IF r.offers = <<>>
                THEN /\ moves' = move_blob("failed", [error |-> "No offers extracted"])
                     /\ ppc' = "returned"
                ELSE /\ ppc' = "upload"
                     /\ UNCHANGED moves
    /\ UNCHANGED <<event, success>>
    /\ UNCHANGED <<coreVars, besidesTriggerVars>>

\* success = upload_to_api_v2(...): True, False or an exception, and the move after it
UploadToApi ==
    /\ ppc = "upload"
    /\ \E s \in {"True", "False", "raise"} :
        /\ success' = Some(s)
        /\ moves' =
             IF s = "True"
             THEN move_blob("processed",
                     [offersExtracted |-> Len(Get(scan_result).offers),
                      autoPublished |-> CountStatus(Get(scan_result).offers, "published"),
                      needsReview |-> CountStatus(Get(scan_result).offers, "needs_review"),
                      scannerVersion |-> Get(scan_result).scanner_version])
             ELSE IF s = "False" THEN move_blob("failed", [error |-> "API upload failed"])
             ELSE move_blob("failed", [error |-> "error"])
    /\ ppc' = "returned"
    /\ UNCHANGED <<event, parsed, scan_result>>
    /\ UNCHANGED <<coreVars, besidesTriggerVars>>

NextTrigger == IgnoreEvent \/ ParseTheFilename \/ DownloadBlob \/ ScanPdf \/ UploadToApi

SpecTrigger == InitTrigger /\ [][NextTrigger]_vars

----------------------------------------------------------------------------
(* _find_product_blocks, one turn of its loop at a time, on lines whose x are  *)
(* 49.9 and 50.0 points apart                                                 *)

MaxClusterLines == 4
ClusterXs == {1000, 5990, 6000}      \* 10.0, 59.9 and 60.0 pt

ClusterLines ==
    UNION { [1..n -> { [text |-> t, x |-> x] : t \in {"Cola", "Spar 5"}, x \in ClusterXs }] :
            n \in 1..MaxClusterLines }

InitCluster ==
    /\ CoreIdle /\ BesidesClusterIdle
    /\ cl_retailer \in {"netto", "rema"}
    /\ cl_lines \in ClusterLines
    /\ cl_font_price_lines \in SUBSET (0..(Len(cl_lines) - 1))
    /\ cl_i = 0
    /\ cl_current_block_start = None
    /\ cl_current_block_x = 0
    /\ cl_blocks = <<>>
    /\ cl_pc = "loop"

\* 'if not text or self._is_skip_line(text): continue'
SkipLine ==
    /\ cl_pc = "loop"
    /\ cl_i < Len(cl_lines)
    /\ IsSkipLine(cl_lines[cl_i + 1].text)
    /\ cl_i' = cl_i + 1
    /\ UNCHANGED <<cl_retailer, cl_lines, cl_font_price_lines, cl_current_block_start,
                   cl_current_block_x, cl_blocks, cl_pc>>
    /\ UNCHANGED <<coreVars, besidesClusterVars>>

\* one turn of the loop on a line that is not skipped
ClusterLine ==
    /\ cl_pc = "loop"
    /\ cl_i < Len(cl_lines)
    /\ ~IsSkipLine(cl_lines[cl_i + 1].text)
    /\ LET line == cl_lines[cl_i + 1]
           st == [blocks |-> cl_blocks, current_block_start |-> cl_current_block_start,
                  current_block_x |-> cl_current_block_x]
           start_new == StartNew(cl_retailer, cl_i, line.x, st, cl_font_price_lines)
       IN  /\ cl_blocks' =
                 IF start_new /\ ~IsNone(cl_current_block_start)
                 THEN Append(cl_blocks,
                             MkBlock(Get(cl_current_block_start), cl_i - 1,
                                     [k \in 1..Len(cl_lines) |-> 1], cl_current_block_x))
                 ELSE cl_blocks
           /\ IF start_new
              THEN /\ cl_current_block_start' = Some(cl_i)
                   /\ cl_current_block_x' = line.x
              ELSE UNCHANGED <<cl_current_block_start, cl_current_block_x>>
    /\ cl_i' = cl_i + 1
    /\ UNCHANGED <<cl_retailer, cl_lines, cl_font_price_lines, cl_pc>>
    /\ UNCHANGED <<coreVars, besidesClusterVars>>

\* after the loop: the open block is closed at the last line, and 'return blocks'
ReturnBlocks ==
    /\ cl_pc = "loop"
    /\ cl_i = Len(cl_lines)
    /\ cl_blocks' =
          IF IsNone(cl_current_block_start) THEN cl_blocks
          ELSE Append(cl_blocks,
                      MkBlock(Get(cl_current_block_start), Len(cl_lines) - 1,
                              [k \in 1..Len(cl_lines) |-> 1], cl_current_block_x))
    /\ cl_pc' = "returned"
    /\ UNCHANGED <<cl_retailer, cl_lines, cl_font_price_lines, cl_i, cl_current_block_start,
                   cl_current_block_x>>
    /\ UNCHANGED <<coreVars, besidesClusterVars>>

NextCluster == SkipLine \/ ClusterLine \/ ReturnBlocks

SpecCluster == InitCluster /\ [][NextCluster]_vars

----------------------------------------------------------------------------
(* upload_to_api_v2 and upload_to_api_v1_fallback. What a POST gives is a      *)
(* response [kind |-> "response", status_code, json], json telling whether     *)
(* response.json() parses the body, or an exception of requests               *)

MaxRetries == 3        \* max_retries of upload_to_api_v2, 3 by default

Responses ==
    [kind : {"response"}, status_code : {200, 201, 400, 404, 500, 503}, json : BOOLEAN]
PostOutcomes ==
    Responses \cup
    { [kind |-> k, status_code |-> 0, json |-> FALSE] :
        k \in {"Timeout", "ConnectionError", "Exception"} }

InitUpload ==
    /\ CoreIdle /\ BesidesUploadIdle
    /\ ul_max_retries \in 0..MaxRetries
    /\ ul_configured \in BOOLEAN
    /\ ul_attempt = 0
    /\ ul_v2_posts = <<>>
    /\ ul_v1_posts = <<>>
    /\ ul_returned = None
    /\ ul_pc = "start"

\* 'if not API_KEY' and 'if _requests is None'; else the payload is built
BuildPayload ==
    /\ ul_pc = "start"
    /\ IF ul_configured
       THEN /\ ul_pc' = "v2"
            /\ UNCHANGED ul_returned
       ELSE /\ ul_pc' = "returned"
            /\ ul_returned' = Some(FALSE)
    /\ UNCHANGED <<ul_max_retries, ul_configured, ul_attempt, ul_v2_posts, ul_v1_posts>>
    /\ UNCHANGED <<coreVars, besidesUploadVars>>

\* what one turn of the retry loop does with what the POST gave: "True", "False",
\* "fallback" or "continue"
AfterV2Post(o) ==
    IF o.kind = "response"
    THEN IF o.status_code = 200 THEN (IF o.json THEN "True" ELSE "False")
         ELSE IF o.status_code = 404 THEN "fallback"
         ELSE IF o.status_code >= 500 THEN "continue"
         ELSE "False"
    ELSE IF o.kind = "Timeout" THEN "fallback"
    ELSE IF o.kind = "ConnectionError" THEN "continue"
    ELSE "False"

\* one turn of 'for attempt in range(max_retries)': the wait, the POST and the branch
PostV2 ==
    /\ ul_pc = "v2"
    /\ ul_attempt < ul_max_retries
    /\ \E o \in PostOutcomes :
          /\ ul_v2_posts' = Append(ul_v2_posts, o)
          /\ LET next == AfterV2Post(o) IN
             /\ ul_pc' = IF next = "continue" THEN "v2"
                          ELSE IF next = "fallback" THEN "v1" ELSE "returned"
             /\ ul_returned' = IF next = "True" THEN Some(TRUE)
                                ELSE IF next = "False" THEN Some(FALSE) ELSE None
    /\ ul_attempt' = ul_attempt + 1
    /\ UNCHANGED <<ul_max_retries, ul_configured, ul_v1_posts>>
    /\ UNCHANGED <<coreVars, besidesUploadVars>>

\* after the loop: 'API upload failed after {max_retries} attempts', return False
RetriesExhausted ==
    /\ ul_pc = "v2"
    /\ ul_attempt >= ul_max_retries
    /\ ul_pc' = "returned"
    /\ ul_returned' = Some(FALSE)
    /\ UNCHANGED <<ul_max_retries, ul_configured, ul_attempt, ul_v2_posts, ul_v1_posts>>
    /\ UNCHANGED <<coreVars, besidesUploadVars>>

\* what upload_to_api_v1_fallback returns for what its POST gave
AfterV1Post(o) == o.kind = "response" /\ o.status_code = 200 /\ o.json

\* return upload_to_api_v1_fallback(...)
PostV1 ==
    /\ ul_pc = "v1"
    /\ \E o \in PostOutcomes :
          /\ ul_v1_posts' = Append(ul_v1_posts, o)
          /\ ul_returned' = Some(AfterV1Post(o))
    /\ ul_pc' = "returned"
    /\ UNCHANGED <<ul_max_retries, ul_configured, ul_attempt, ul_v2_posts>>
    /\ UNCHANGED <<coreVars, besidesUploadVars>>

NextUpload == BuildPayload \/ PostV2 \/ RetriesExhausted \/ PostV1

SpecUpload == InitUpload /\ [][NextUpload]_vars

\* the function runs on: no step of it waits for anything but its own POST and sleep
SpecUploadFair == SpecUpload /\ WF_vars(NextUpload)


----------------------------------------------------------------------------
(* OpenAINormalizer(max_cache_size = N): normalize calls through one         *)
(* instance with caching enabled                                             *)

MaxN == 3              \* the largest max_cache_size an instance is built with

\* OpenAINormalizer(api_key, enable_cache = True, max_cache_size = N), N >= 1
SizedInsts == [has_client : BOOLEAN, enable_cache : {TRUE}, max_cache_size : 1..MaxN]

\* product texts and prices (thousandths of a krone) that give five cache keys
SizedInputs == { <<<<"Cola">>, None>>, <<<<"COLA">>, None>>, <<<<"Spar 5">>, None>>,
                 <<<<"Cola">>, Some(10000)>>, <<<<"Spar 5">>, Some(10000)>>,
                 <<<<"Cola">>, Some(20000)>> }

\* __init__: the class-level _cache is empty in a fresh process
InitSized ==
    /\ CoreIdle /\ BesidesSizedIdle
    /\ normalizer \in { Some(inst) : inst \in SizedInsts }

\* normalize(product_text, price) through the instance
SizedNormalize ==
    \E input \in SizedInputs, lm \in NLmOutcomes :
        LET inst == Get(normalizer)
            product_text == input[1]
            price == input[2]
            cache_key == _get_cache_key(product_text, price)
            r == normalize(inst, cache, product_text, price, lm)
        IN  /\ ncall = NoCall
            /\ cache' = r.cache
            /\ ncall' = [op |-> "normalize",
                         has_client |-> inst.has_client,
                         enable_cache |-> inst.enable_cache,
                         texts |-> <<product_text>>,
                         prices |-> <<price>>,
                         results |-> <<r.result>>,
                         cached_before |-> IF cache_key \in CacheKeys(cache) THEN {1} ELSE {},
                         evicted |-> r.evicted,
                         lm_sent |-> IF r.lm_called THEN {1} ELSE {},
                         lm_failed |-> r.lm_failed]
            /\ UNCHANGED <<watched, normalizer, flyerVars, scanVars, confVars, besidesSizedVars>>

NextSized == SizedNormalize \/ CallReturned

SpecSized == InitSized /\ [][NextSized]_vars

----------------------------------------------------------------------------
(* Scanner.scan: the page of an offer and the page its crop is taken from    *)

MaxPages == 3          \* pages of the PDF
MaxOfferBlocks == 3    \* offer blocks found in the document

\* a physical page is named by its index in the fitz document: doc[0], doc[1], ...
\* PageLayout(page_number = page_num + 1): the page a page_number stands for
PageOfNumber(page_number) == page_number - 1

\* PyMuPDFLayoutService.analyze_pdf: one PageLayout per page, numbered from 1
analyze_pdf(len_doc) == [page_num \in 1..len_doc |-> (page_num - 1) + 1]

\* BboxCropper.crop_and_upload: 'rendered' is the index of the page the pixmap
\* was taken from, 'blob_url' tells whether a URL came back
crop_and_upload(has_pymupdf, has_blob, len_doc, page, upload_ok) ==
    IF ~has_pymupdf
    THEN [success |-> FALSE, blob_url |-> FALSE, error |-> "PyMuPDF not installed",
          rendered |-> None]
    ELSE IF page >= len_doc
    THEN [success |-> FALSE, blob_url |-> FALSE, error |-> "Page does not exist",
          rendered |-> None]
    ELSE IF has_blob /\ upload_ok
    THEN [success |-> TRUE, blob_url |-> TRUE, error |-> "", rendered |-> Some(page)]
    ELSE IF has_blob
    THEN [success |-> TRUE, blob_url |-> FALSE, error |-> "Upload failed",
          rendered |-> Some(page)]
    ELSE [success |-> TRUE, blob_url |-> FALSE, error |-> "Blob storage not configured",
          rendered |-> Some(page)]

\* Scanner(enable_cropping), scan(pdf_content): a PDF of one page or more
InitCrop ==
    /\ CoreIdle /\ BesidesCropIdle
    /\ cr_len_doc \in 1..MaxPages
    /\ cr_enable_cropping \in BOOLEAN
    /\ cr_has_pymupdf \in BOOLEAN
    /\ cr_has_blob \in BOOLEAN
    /\ cr_document = <<>>
    /\ cr_offer_blocks = <<>>
    /\ cr_offers = <<>>
    /\ cr_pc = "start"

\* document = self.layout_service.analyze_pdf(pdf_content)
CropAnalyzePdf ==
    /\ cr_pc = "start"
    /\ cr_document' = analyze_pdf(cr_len_doc)
    /\ cr_pc' = "analyzed"
    /\ UNCHANGED <<cr_len_doc, cr_enable_cropping, cr_has_pymupdf, cr_has_blob,
                   cr_offer_blocks, cr_offers>>
    /\ UNCHANGED <<coreVars, besidesCropVars>>

\* offer_blocks = self.offer_detector.detect_offers(document): page by page,
\* each block with page = page.page_number
CropDetectOffers ==
    /\ cr_pc = "analyzed"
    /\ \E n \in 0..MaxOfferBlocks :
         \E pages \in [1..n -> { cr_document[k] : k \in 1..Len(cr_document) }] :
            /\ \A a, b \in 1..n : a <= b => pages[a] <= pages[b]
            /\ cr_offer_blocks' = [k \in 1..n |-> [page |-> pages[k]]]
    /\ cr_pc' = "detected"
    /\ UNCHANGED <<cr_len_doc, cr_enable_cropping, cr_has_pymupdf, cr_has_blob,
                   cr_document, cr_offers>>
    /\ UNCHANGED <<coreVars, besidesCropVars>>

\* _process_offer_block on the next block: the trace, then the crop
CropProcessOfferBlock ==
    /\ cr_pc = "detected"
    /\ Len(cr_offers) < Len(cr_offer_blocks)
    /\ \E upload_ok \in BOOLEAN :
         LET block == cr_offer_blocks[Len(cr_offers) + 1]
             crop_result == IF cr_enable_cropping
                            THEN Some(crop_and_upload(cr_has_pymupdf, cr_has_blob,
                                                      cr_len_doc, block.page, upload_ok))
                            ELSE None
         IN  cr_offers' = Append(cr_offers, [trace_page |-> block.page,
                                             crop |-> crop_result])
    /\ UNCHANGED <<cr_len_doc, cr_enable_cropping, cr_has_pymupdf, cr_has_blob,
                   cr_document, cr_offer_blocks, cr_pc>>
    /\ UNCHANGED <<coreVars, besidesCropVars>>

\* return result
ScanWithCropsReturned ==
    /\ cr_pc = "detected"
    /\ Len(cr_offers) = Len(cr_offer_blocks)
    /\ cr_pc' = "returned"
    /\ UNCHANGED <<cr_len_doc, cr_enable_cropping, cr_has_pymupdf, cr_has_blob,
                   cr_document, cr_offer_blocks, cr_offers>>
    /\ UNCHANGED <<coreVars, besidesCropVars>>

NextCrop == CropAnalyzePdf \/ CropDetectOffers \/ CropProcessOfferBlock \/ ScanWithCropsReturned

SpecCrop == InitCrop /\ [][NextCrop]_vars
----------------------------------------------------------------------------
(* Claims                                                                    *)

\* the page of the line a font price sits on
AnchorPage(k) == line_to_page[all_font_prices[k].line_index + 1]

\* the offers of tilbud_raw before position j that have the duplicate key of offer j
EarlierSameKey(j) ==
    { i \in 1..(j - 1) :
        DupKey(tilbud_raw[i].produkt, PrisOr0(tilbud_raw[i].total_pris))
            = DupKey(tilbud_raw[j].produkt, PrisOr0(tilbud_raw[j].total_pris)) }

SetMin(S) == CHOOSE m \in S : \A o \in S : m <= o

\* C1: every offer a scan emits (Scanner.scan, the Netto scanner, the Rema scanner)
\* has a price, the price is the value of a price anchor, and that anchor lies on
\* the page the offer is reported on; no offer is emitted without an anchor.
C1_OfferPriceFromAnchorOnItsPage ==
    /\ fpc = "done" =>
         \A j \in 1..Len(tilbud) :
            /\ tilbud[j].anchor # 0
            /\ tilbud[j].total_pris = Some(all_font_prices[tilbud[j].anchor].value)
            /\ AnchorPage(tilbud[j].anchor) = tilbud[j].side
    /\ \A j \in 1..Len(result.offers) :
         LET o == result.offers[j]
             b == offer_blocks[o.block]
         IN  /\ b.page = o.page
             /\ b.price_block \in 1..Len(document[o.page])
             /\ ~IsNone(_extract_price(document[o.page][b.price_block].text))
             /\ o.price_value =
                   Some(Get(_extract_price(document[o.page][b.price_block].text)).value)

\* the three statuses partition the confidence scale at 0.5 and 0.9
StatusMatches(confidence, status) ==
    /\ status \in {"published", "needs_review", "low_confidence"}
    /\ status = "published" <=> confidence >= 90
    /\ status = "needs_review" <=> (50 <= confidence /\ confidence < 90)
    /\ status = "low_confidence" <=> confidence < 50

\* C2: an offer is published exactly when its confidence is at least 0.9, needs_review
\* exactly when it is at least 0.5 and below 0.9, low_confidence otherwise; a published
\* offer has a price value and a product_norm.  Checked on the offers of Scanner.scan
\* and on calculate_confidence / get_status_from_confidence over inputs of their own.
C2_StatusFollowsConfidence ==
    /\ \A j \in 1..Len(result.offers) :
         LET o == result.offers[j] IN
         /\ StatusMatches(o.confidence, o.status)
         /\ o.status = "published" =>
               /\ ~IsNone(o.price_value) /\ Get(o.price_value) > 0
               /\ o.product_norm # <<>>
    /\ ~IsNone(conf_out) =>
         /\ StatusMatches(Get(conf_out).overall, Get(conf_out).status)
         /\ Get(conf_out).status = "published" =>
               /\ Get(conf_in).has_price
               /\ ~IsNone(Get(conf_in).price_value) /\ Get(Get(conf_in).price_value) > 0
               /\ Get(conf_in).product_norm # <<>>

\* a scan has returned a published offer next to one that needs review
C2_Witness ==
    /\ spc = "done"
    /\ \E i, j \in 1..Len(result.offers) :
          /\ result.offers[i].status = "published"
          /\ result.offers[i].confidence >= 90
          /\ result.offers[j].status = "needs_review"

\* C3: in one Netto or Rema scan the first block with a (lower-cased trimmed product,
\* price) pair is not flagged, every later block with that pair is flagged er_duplikat
\* with the first-seen page being the page of the first block with the pair, and the
\* flag removes no offer from the output (only _is_valid_product does).
C3_DuplicateFlaggedWithFirstPage ==
    /\ \A j \in 1..Len(tilbud_raw) :
         LET t == tilbud_raw[j]
             earlier == EarlierSameKey(j)
         IN  IF earlier = {}
             THEN ~t.er_duplikat
             ELSE /\ t.er_duplikat
                  /\ t.foerste_side = Some(tilbud_raw[SetMin(earlier)].side)
    /\ fpc = "done" =>
         \A j \in 1..Len(tilbud_raw) :
            _is_valid_product(retailer, tilbud_raw[j]) =>
                \E i \in 1..Len(tilbud) : tilbud[i] = tilbud_raw[j]

\* a ScannedOffer has no is_duplicate field; an offer record that had one would carry it
IsFlaggedDuplicate(o) == "is_duplicate" \in DOMAIN o /\ o.is_duplicate

\* C4: in one scan (Scanner.scan, Netto, Rema) two distinct offers with the same
\* lower-cased product name and the same price are never both unflagged: at least one
\* of them is marked as a duplicate.
C4_SameProductAndPriceFlagged ==
    /\ \A i, j \in 1..Len(tilbud_raw) :
         (i < j /\ DupKey(tilbud_raw[i].produkt, PrisOr0(tilbud_raw[i].total_pris))
                     = DupKey(tilbud_raw[j].produkt, PrisOr0(tilbud_raw[j].total_pris)))
            => (tilbud_raw[i].er_duplikat \/ tilbud_raw[j].er_duplikat)
    /\ \A i, j \in 1..Len(result.offers) :
         (/\ i < j
          /\ ProduktLower(result.offers[i].product_norm)
                = ProduktLower(result.offers[j].product_norm)
          /\ result.offers[i].price_value = result.offers[j].price_value)
            => (IsFlaggedDuplicate(result.offers[i]) \/ IsFlaggedDuplicate(result.offers[j]))

\* the TextBlocks of an OfferBlock
BlocksOf(ob) == { ob.text_blocks[k] : k \in 1..Len(ob.text_blocks) }

\* C5: no text element belongs to two offer blocks: the blocks of _find_product_blocks
\* have pairwise disjoint ranges [start_idx, end_idx], and on a page no TextBlock (the
\* price block included) is in two OfferBlocks of OfferDetector.
C5_NoTextInTwoBlocks ==
    /\ \A i \in 1..Len(blocks) : blocks[i].start_idx <= blocks[i].end_idx
    /\ \A i, j \in 1..Len(blocks) :
         i # j => \/ blocks[i].end_idx < blocks[j].start_idx
                  \/ blocks[j].end_idx < blocks[i].start_idx
    /\ \A i \in 1..Len(offer_blocks) : offer_blocks[i].price_block \in BlocksOf(offer_blocks[i])
    /\ \A i, j \in 1..Len(offer_blocks) :
         (i # j /\ offer_blocks[i].page = offer_blocks[j].page)
            => BlocksOf(offer_blocks[i]) \cap BlocksOf(offer_blocks[j]) = {}

\* the detector has built two OfferBlocks on one page
C5_Witness ==
    \E i, j \in 1..Len(offer_blocks) :
       /\ i # j
       /\ offer_blocks[i].page = offer_blocks[j].page
       /\ Cardinality(BlocksOf(offer_blocks[i])) >= 2
       /\ Cardinality(BlocksOf(offer_blocks[j])) >= 2

\* C6: each block takes the first font price (in font price order) whose line_index
\* lies in [start_idx, end_idx + 2], and no font price gives its value to two blocks.
C6_AnchorAttachedToOneBlock ==
    /\ \A j \in 1..Len(tilbud_raw) :
         LET t == tilbud_raw[j]
             b == blocks[t.block]
             in_range == { k \in 1..Len(all_font_prices) :
                             /\ b.start_idx <= all_font_prices[k].line_index
                             /\ all_font_prices[k].line_index <= b.end_idx + 2 }
         IN  IF in_range = {}
             THEN IsNone(t.total_pris)
             ELSE t.total_pris = Some(all_font_prices[SetMin(in_range)].value)
    /\ \A i, j \in 1..Len(tilbud_raw) :
         (i # j /\ tilbud_raw[i].anchor # 0) => tilbud_raw[i].anchor # tilbud_raw[j].anchor

\* the cache key of the last normalize call
LastKey == _get_cache_key(ncall.texts[1], ncall.prices[1])

\* C7 as stated: two normalize calls with equal cache keys return equal
\* NormalizedProducts, whatever calls come between them (evictions included) and
\* whatever the language model does.
C7_EqualKeysEqualProducts ==
    (/\ ncall.op = "normalize"
     /\ ~IsNone(watched)
     /\ LastKey = Get(watched).key)
        => ncall.results[1] = Get(watched).result

\* a normalize step on a caching normalizer answers a cached key from the cache and
\* leaves the cache alone, and stores what it returns for a key that was not cached
CachedKeyAnswered ==
    (ncall'.op = "normalize" /\ ncall'.enable_cache) =>
        LET key == _get_cache_key(ncall'.texts[1], ncall'.prices[1]) IN
        IF key \in CacheKeys(cache)
        THEN ncall'.results[1] = Get(CacheGet(cache, key)) /\ cache' = cache
        ELSE CacheGet(cache', key) = Some(ncall'.results[1])

\* an entry keeps its product until its key is evicted
EntriesKept ==
    \A k \in CacheKeys(cache) \ ncall'.evicted : CacheGet(cache', k) = CacheGet(cache, k)

\* C7, amended: two normalize calls on caching normalizers with equal cache keys return
\* equal NormalizedProducts as long as the key is not evicted between them, whatever
\* calls come between them and whatever the language model does: a cached key is
\* answered from the cache, and an entry never changes while it is cached.
C7_EqualWhileCached ==
    /\ [][CachedKeyAnswered /\ EntriesKept]_vars
    /\ [](( /\ ncall.op = "normalize" /\ ncall.enable_cache
            /\ ~IsNone(watched) /\ Get(watched).live
            /\ LastKey = Get(watched).key )
              => ncall.results[1] = Get(watched).result)

\* a call hits the entry of an earlier call that a differently spelled text made,
\* with a full cache
C7_Witness ==
    /\ ncall.op = "normalize" /\ ncall.enable_cache
    /\ ncall.cached_before = {1}
    /\ ncall.texts[1] = <<"COLA">>
    /\ ~IsNone(watched) /\ Get(watched).live
    /\ LastKey = Get(watched).key
    /\ ncall.results[1] = Get(watched).result
    /\ Len(cache) = MaxCacheSize

\* the keys of the last call
KeyOf(k) == _get_cache_key(ncall.texts[k], ncall.prices[k])

\* C8: the per-item path and the batch path share the cache: after normalize_batch the
\* cache holds an entry for every product of the batch, and a product whose key is
\* cached is returned without a language model call, in normalize and normalize_batch.
C8_BatchSharesTheCache ==
    ncall.enable_cache =>
        /\ ncall.op = "batch" => \A k \in 1..Len(ncall.texts) : KeyOf(k) \in CacheKeys(cache)
        /\ \A k \in ncall.cached_before : k \notin ncall.lm_sent

OkBlocks == SelectIdx(1, Len(outcomes), { i \in 1..Len(outcomes) : outcomes[i] = "ok" })

C10_OffersOfRemainingBlocks ==
    /\ spc = "raised" => (offer_blocks = <<>> /\ outcomes = <<>> /\ result = NoResult)
    /\ spc \in {"process", "done"} =>
         /\ result.offers_detected = Len(offer_blocks)
         /\ Len(result.offers) <= result.offers_detected
         /\ Len(result.offers) = Len(OkBlocks)
         /\ \A k \in 1..Len(result.offers) :
               /\ result.offers[k].block = OkBlocks[k]
               /\ result.offers[k].product_text_raw = offer_blocks[OkBlocks[k]].product_text
    /\ spc = "process" => Len(outcomes) <= Len(offer_blocks)
    /\ spc = "done" => Len(outcomes) = Len(offer_blocks)

\* C10: once analyze_pdf has returned, Scanner.scan returns a ScanResult: an exception
\* in one offer block drops that block only, the offers are the results of the other
\* blocks in detection order, there are at most offers_detected of them, and only a
\* failure of the layout extraction makes scan raise.
C10_ScanAlwaysReturns ==
    /\ []C10_OffersOfRemainingBlocks
    /\ (spc = "detect") ~> (spc = "done")

\* a scan has returned the offer of a block that follows a block that raised
C10_Witness ==
    /\ spc = "done"
    /\ \E i, j \in 1..Len(outcomes) : i < j /\ outcomes[i] = "raised" /\ outcomes[j] = "ok"
    /\ Len(result.offers) >= 1

----------------------------------------------------------------------------
(* C11: two scans of the same PDF                                            *)

\* C11: when the second scan() of the same PDF has returned, it has returned what the
\* first one returned: the same offers in the same order with the same field values,
\* and no field read from the clock that differs -- whatever the language model does
\* at each run and whatever is in the normalizer cache
C11_TwoScansIdentical ==
    /\ (fpc = "done" /\ ~IsNone(first_scan)) => FlyerReturn = Get(first_scan)
    /\ (spc = "done" /\ ~IsNone(first_scan)) => result = Get(first_scan)

----------------------------------------------------------------------------
(* C12: the Rema locator on a line that is one dash price                    *)

\* the anchors of the page that sit on the line with index li
AnchorsOnLine(li) ==
    { k \in 1..Len(page_font_prices) : page_font_prices[k].line_index = li }

\* C12: in RemaScanner._extract_text_with_prices a walked line that is the single span
\* "49,-" at 50 pt or more has given one price anchor, of 49.00 kr, with the index and
\* the x of that line
C12_RemaDashPriceLineGivesAnchor ==
    locator = "rema" =>
        \A k \in 1..Len(read_lines) :
            (/\ Len(read_lines[k].spans) = 1
             /\ read_lines[k].spans[1].text = "49,-"
             /\ read_lines[k].spans[1].size >= 500)
            => /\ Cardinality(AnchorsOnLine(read_lines[k].line_index)) = 1
               /\ \A a \in AnchorsOnLine(read_lines[k].line_index) :
                     page_font_prices[a] = [value |-> 4900,
                                            line_index |-> read_lines[k].line_index,
                                            x |-> read_lines[k].x]

----------------------------------------------------------------------------
(* C20: the register of the Netto locator                                    *)

\* a kroner span: 50 pt or more and one to three digits
KronerSpan(span) ==
    /\ span.size >= 500
    /\ ~IsNone(DigitsOf(Strip(span.text)))
    /\ StrLen(Strip(span.text)) <= 3

\* the lines walked, the one being walked with the spans taken so far
WalkedLines ==
    read_lines \o
    (IF IsNone(cur_line) THEN <<>>
     ELSE <<[x |-> Get(cur_line).x, spans |-> SubSeq(Get(cur_line).spans, 1, span_i),
             line_index |-> line_index]>>)

RECURSIVE KronerSpansIn(_)
KronerSpansIn(spans) ==
    IF spans = <<>> THEN 0
    ELSE (IF KronerSpan(spans[1]) THEN 1 ELSE 0) + KronerSpansIn(Tail(spans))

RECURSIVE KronerSpansWalked(_)
KronerSpansWalked(ls) ==
    IF ls = <<>> THEN 0 ELSE KronerSpansIn(ls[1].spans) + KronerSpansWalked(Tail(ls))

\* span j2 of a line completes the kroner span j of the same line to the value v (øre):
\* no kroner span between them, and j2 is a separator or two digits of 20 to 50 pt
Completes(spans, j, j2, v) ==
    /\ j < j2
    /\ KronerSpan(spans[j])
    /\ \A m \in (j + 1)..j2 : ~KronerSpan(spans[m])
    /\ \/ /\ Strip(spans[j2].text) \in {".-", "-", ".", ",-"}
          /\ v = Get(DigitsOf(Strip(spans[j].text))) * 100
       \/ /\ spans[j2].size >= 200 /\ spans[j2].size < 500
          /\ ~IsNone(DigitsOf(Strip(spans[j2].text)))
          /\ StrLen(Strip(spans[j2].text)) = 2
          /\ v = Get(DigitsOf(Strip(spans[j].text))) * 100
                 + Get(DigitsOf(Strip(spans[j2].text)))

\* every anchor has the line_index and the x of a walked line on which a span completes
\* a kroner span to the anchor's value; and there are no more anchors than kroner spans
AnchorsCompleteKronerSpans ==
    locator = "netto" =>
        /\ Len(page_font_prices) <= KronerSpansWalked(WalkedLines)
        /\ \A k \in 1..Len(page_font_prices) :
              \E l \in 1..Len(WalkedLines) :
                 /\ WalkedLines[l].line_index = page_font_prices[k].line_index
                 /\ WalkedLines[l].x = page_font_prices[k].x
                 /\ \E j, j2 \in 1..Len(WalkedLines[l].spans) :
                       Completes(WalkedLines[l].spans, j, j2, page_font_prices[k].value)

\* a step of the span loop of ScannerV2, on the span it takes
NettoTakes(span) ==
    /\ locator = "netto"
    /\ ~IsNone(cur_line)
    /\ span_i < Len(Get(cur_line).spans)
    /\ span = Get(cur_line).spans[span_i + 1]
    /\ span_i' = span_i + 1

\* a kroner span is put into the register, whatever was there, and emits nothing
KronerOnlyFillsRegister ==
    \A span \in NettoSpans :
        (NettoTakes(span) /\ KronerSpan(span))
        => /\ page_font_prices' = page_font_prices
           /\ current_price_kr' = DigitsOf(Strip(span.text))
           /\ current_price_kr_pos' = Some(line_index)
           /\ current_price_kr_x' = Some(Get(cur_line).x)

\* the kroner in the register was read on a line that has ended
RegisterFromEarlierLine ==
    /\ ~IsNone(current_price_kr)
    /\ \E l \in 1..Len(read_lines) :
          /\ read_lines[l].line_index = Get(current_price_kr_pos)
          /\ KronerSpansIn(read_lines[l].spans) > 0
    /\ ~IsNone(cur_line) => KronerSpansIn(SubSeq(Get(cur_line).spans, 1, span_i)) = 0

\* no span emits an anchor for a kroner span whose line has ended
NoAnchorForEarlierLine ==
    \A span \in NettoSpans :
        (NettoTakes(span) /\ RegisterFromEarlierLine)
        => page_font_prices' = page_font_prices

\* C20: in ScannerV2._extract_text_with_prices, for every sequence of spans of a page, a
\* kroner span emits no anchor and replaces the register; after the end of the kroner
\* span's line no span emits an anchor for it; so there are never more anchors than
\* kroner spans, and every anchor has the line_index and x of the kroner span of the
\* same line that it completes
C20_AnchorsOnlyOnTheKronerLine ==
    /\ []AnchorsCompleteKronerSpans
    /\ [][KronerOnlyFillsRegister /\ NoAnchorForEarlierLine]_vars

\* the walk has returned without an anchor: two kroner spans on the first line, the second
\* replacing the first in the register, and a separator alone on the line below
C20_Witness ==
    /\ locator = "netto"
    /\ lpc = "returned"
    /\ page_font_prices = <<>>
    /\ Len(read_lines) = 2
    /\ KronerSpansIn(read_lines[1].spans) = 2
    /\ Len(read_lines[2].spans) = 1
    /\ read_lines[2].spans[1].text = ".-"

----------------------------------------------------------------------------
(* C13: a change of column between two lines                                 *)

\* lines k and k+1 of col_lines (indices k-1 and k) are not skip lines and no font
\* price is on either
PlainPair(k) ==
    /\ k \in 1..(Len(col_lines) - 1)
    /\ ~IsSkipLine(col_lines[k].text)
    /\ ~IsSkipLine(col_lines[k + 1].text)
    /\ \A a \in 1..Len(col_font_prices) :
          col_font_prices[a].line_index \notin {k - 1, k}

\* a block ends with line k and another starts with line k+1
SplitAfter(k) ==
    /\ \E b \in 1..Len(Get(col_blocks)) : Get(col_blocks)[b].end_idx = k - 1
    /\ \E b \in 1..Len(Get(col_blocks)) : Get(col_blocks)[b].start_idx = k

\* C13: two consecutive non-skip lines at 0.12 and 0.55 of the page width, with no price
\* anchor on or between them, are in two separate blocks of _find_product_blocks
C13_ColumnChangeSplitsBlocks ==
    ~IsNone(col_blocks) =>
        \A k \in 1..Len(col_lines) :
            ( /\ PlainPair(k)
              /\ col_lines[k].x = LineX(12, page_width)
              /\ col_lines[k + 1].x = LineX(55, page_width) )
            => SplitAfter(k)

\* C13, amended: two consecutive non-skip lines with no price anchor on either, whose x
\* in points differ by 100 or more, are in two separate blocks of _find_product_blocks
C13_Amended ==
    ~IsNone(col_blocks) =>
        \A k \in 1..Len(col_lines) :
            ( /\ PlainPair(k)
              /\ Abs(col_lines[k].x - col_lines[k + 1].x) >= 10000 )
            => SplitAfter(k)

\* on an A4 page, a line at 0.36 of the width, then lines at 0.12 and 0.55 (71.40 and
\* 327.25 points), no font price: three blocks
C13_Witness ==
    /\ ~IsNone(col_blocks)
    /\ page_width = 595
    /\ Len(col_lines) = 3
    /\ col_font_prices = <<>>
    /\ PlainPair(1) /\ PlainPair(2)
    /\ col_lines[2].x = 7140
    /\ col_lines[3].x = 32725
    /\ Len(Get(col_blocks)) = 3

----------------------------------------------------------------------------
(* C14: the SKU key round trip                                               *)

\* product_norm is there and not blank
NonBlankProduct ==
    /\ ~IsNone(sku_fields)
    /\ ~IsNone(Get(sku_fields).product_norm)
    /\ StripChars(Get(Get(sku_fields).product_norm), {" "}) # <<>>

\* the amount of the fields in base units, None when value or unit is missing
ExpectedAmount ==
    LET f == Get(sku_fields) IN
    IF IsNone(f.net_amount_value) \/ IsNone(f.net_amount_unit) THEN None
    ELSE Some(AmountInBase(Get(f.net_amount_value), Get(f.net_amount_unit)))

\* the parsed key has the fields in their normalized forms and the amount in base units
ParsedIsNormalizedFields ==
    /\ ~IsNone(Get(sku_parsed))
    /\ LET p == Get(Get(sku_parsed))
           f == Get(sku_fields)
       IN  /\ p.brand = normalize_text(f.brand_norm)
           /\ p.product = normalize_text(f.product_norm)
           /\ p.variant = normalize_text(f.variant_norm)
           /\ p.container = normalize_text(f.container_type)
           /\ IF IsNone(ExpectedAmount)
              THEN p.amount = None /\ p.amount_value = None /\ p.amount_unit = None
              ELSE /\ p.amount_value = Some(Get(ExpectedAmount).value)
                   /\ p.amount_unit = Some(Get(ExpectedAmount).unit)

\* C14: for a non-blank product, generate_sku_key returns a string of exactly five
\* '|'-separated fields, and parse_sku_key of it gives brand, product, variant and
\* container in their normalized forms (None for a missing one) and the amount in base
\* units
C14_SkuRoundTrip ==
    (NonBlankProduct /\ ~IsNone(sku_key)) =>
        /\ ~Get(sku_key).raised
        /\ ~IsNone(Get(sku_key).value)
        /\ Len(SplitOn(Get(Get(sku_key).value), "|", <<>>)) = 5
        /\ ~IsNone(sku_parsed) => ParsedIsNormalizedFields

----------------------------------------------------------------------------
(* C15: the unit price of one offer in the units of one base                 *)

\* C15: calculate_unit_price gives the same unit_price_value and the same
\* unit_price_unit for the same price, deposit and pack count and the same amount written
\* in any two units of one base (kg, g; l, dl, cl, ml)
C15_UnitPriceAgrees ==
    \A r1, r2 \in up_results : r1.unit_price = r2.unit_price

----------------------------------------------------------------------------
(* C16: 'netto' and a more specific store in one text                        *)

NettoWord == <<"n", "e", "t", "t", "o">>

\* the stores other than netto of which the text holds an exclusive keyword
MoreSpecificStores(text) ==
    { STORE_PATTERNS[i].store : i \in { j \in 2..Len(STORE_PATTERNS) :
                                           HasExclusive(STORE_PATTERNS[j], text) } }

\* C16: when the inspected text holds 'netto' and an exclusive keyword of a more specific
\* store, detect_store and _detect_retailer return a more specific store of the text
C16_NettoOnlyWithoutMoreSpecificStore ==
    /\ (~IsNone(store_detected) /\ Get(store_doc).readable) =>
          LET all_text == AllText(Get(store_doc).pages, 1) IN
          (Contains(all_text, NettoWord) /\ MoreSpecificStores(all_text) # {})
          => Get(store_detected) \in MoreSpecificStores(all_text)
    /\ ~IsNone(retailer_detected) =>
          LET text == LowerChars(Get(store_doc).pages[1]) IN
          (Contains(text, NettoWord) /\ MoreSpecificStores(text) # {})
          => Get(retailer_detected).retailer_id \in
                { Some(s) : s \in MoreSpecificStores(text) }

----------------------------------------------------------------------------
(* C17: the week computations                                                *)

\* the ISO-8601 year and week of a date: those of the Thursday of its week
IsoWeek(date) ==
    LET thursday == date - weekday(date) + 3
        y == CHOOSE yy \in 2018..2033 :
                Jan1Ordinal(yy) <= thursday /\ thursday < Jan1Ordinal(yy + 1)
    IN  [year |-> y, week |-> (thursday - Jan1Ordinal(y)) \div 7 + 1]

\* the ISO-8601 weeks of a year: 53 when it has 53 Thursdays
IsoWeeksIn(y) ==
    IF weekday(datetime(y, 1, 1)) = 3 \/ (IsLeap(y) /\ weekday(datetime(y, 1, 1)) = 2)
    THEN 53 ELSE 52

DateOf(s) == datetime(s.Y, s.m, s.d)

\* the dates are the Monday of the week of January 4 plus week_num - 1 weeks, and the
\* Sunday after it; for a week the year has, they are in ISO week week_num of the year
IsTheIsoWeek(dates) ==
    /\ weekday(DateOf(dates.fra)) = 0
    /\ DateOf(dates.til) = DateOf(dates.fra) + 6
    /\ \E monday \in (datetime(week_year, 1, 4) - 6)..datetime(week_year, 1, 4) :
          /\ weekday(monday) = 0
          /\ DateOf(dates.fra) = monday + 7 * (week_num - 1)
    /\ week_num \in 1..IsoWeeksIn(week_year) =>
          /\ IsoWeek(DateOf(dates.fra)) = [year |-> week_year, week |-> week_num]
          /\ IsoWeek(DateOf(dates.til)) = [year |-> week_year, week |-> week_num]

\* C17: for every year and week number, each week computation returns the Monday of the
\* week of January 4 plus NN-1 weeks and that Monday plus 6 days, which is ISO-8601 week
\* NN; _detect_validity, parse_filename and the two _extract_validity_period agree on
\* both dates
C17_WeekComputationsAgree ==
    /\ \A r \in week_dates : IsTheIsoWeek(r.dates)
    /\ \A r1, r2 \in week_dates : r1.dates = r2.dates

\* week 53 of 2026, a year that begins on a Thursday, by all four computations:
\* 2026-12-28 to 2027-01-03
C17_Witness ==
    /\ week_year = 2026
    /\ week_num = 53
    /\ Cardinality(week_dates) = 4
    /\ \A r \in week_dates :
          r.dates = [fra |-> [Y |-> 2026, m |-> 12, d |-> 28],
                     til |-> [Y |-> 2027, m |-> 1, d |-> 3]]

----------------------------------------------------------------------------
(* C18: the cache of CategoryService                                         *)

\* no fetch while a non-empty cache is younger than 300 seconds, a fetch once it is older
FetchesByAge ==
    (~IsNone(cat_call) /\ ~Get(cat_call).force_refresh) =>
        LET c == Get(cat_call) IN
        /\ (c.cache_before # {} /\ c.age_before < 300) => ~c.fetched
        /\ c.age_before > 300 => c.fetched

----------------------------------------------------------------------------
(* C19: one move_blob for an event                                           *)

\* C19: for a BlobCreated event of a .pdf blob in tilbudsaviser, process_tilbudsavis has
\* called move_blob exactly once when it returns, to 'processed' if and only if the scan
\* gave an offer and the upload reported success, to 'failed' otherwise; for any other
\* event it has moved nothing; and it never calls move_blob twice
C19_MovesTheBlobOnce ==
    /\ Len(moves) <= 1
    /\ ppc = "returned" =>
          IF Accepted(Get(event))
          THEN /\ Len(moves) = 1
               /\ moves[1].destination \in {"processed", "failed"}
               /\ moves[1].destination = "processed" <=>
                     (~IsNone(scan_result) /\ Get(scan_result).offers # <<>>
                      /\ success = Some("True"))
          ELSE moves = <<>>

\* an upload of two offers that succeeded: one move to 'processed'
C19_Witness ==
    /\ ppc = "returned"
    /\ Accepted(Get(event))
    /\ ~IsNone(scan_result)
    /\ Len(Get(scan_result).offers) = 2
    /\ success = Some("True")
    /\ moves = <<[destination |-> "processed",
                  metadata |-> [offersExtracted |-> 2, autoPublished |-> 1,
                                needsReview |-> 1, scannerVersion |-> "2.0.0"]]>>

----------------------------------------------------------------------------
(* C21: a kroner span and the span that completes it                          *)

\* a separator, or two digits of 20 pt to below 50 pt
Completer(span) ==
    \/ Strip(span.text) \in {".-", "-", ".", ",-"}
    \/ /\ span.size >= 200 /\ span.size < 500
       /\ ~IsNone(DigitsOf(Strip(span.text)))
       /\ StrLen(Strip(span.text)) = 2

\* the value, in øre, that span completes the kroner span to
CompletedValue(kroner, span) ==
    IF Strip(span.text) \in {".-", "-", ".", ",-"}
    THEN Get(DigitsOf(Strip(kroner.text))) * 100
    ELSE Get(DigitsOf(Strip(kroner.text))) * 100 + Get(DigitsOf(Strip(span.text)))

\* span j of the line is a kroner span and nothing between j and k is a kroner span
\* or completes it
OpenKronerAt(spans, j, k) ==
    /\ j < k
    /\ KronerSpan(spans[j])
    /\ \A m \in (j + 1)..(k - 1) : ~KronerSpan(spans[m]) /\ ~Completer(spans[m])

\* span j of the line is a kroner span that a span before k has completed, and no
\* kroner span follows it before k
CompletedKronerAt(spans, j, k) ==
    /\ j < k
    /\ KronerSpan(spans[j])
    /\ \A m \in (j + 1)..(k - 1) : ~KronerSpan(spans[m])
    /\ \E m \in (j + 1)..(k - 1) : Completer(spans[m])

\* C21: in the Netto locator, the first span after a kroner span of the same line that is
\* a separator or two digits of 20 pt to below 50 pt appends exactly one anchor, with the
\* kroner (plus the digits as øre) as value, and empties the register; a further
\* separator or øre span of that line appends nothing
C21_FirstCompleterEmitsOnce ==
    [][\A span \in NettoSpans :
          (NettoTakes(span) /\ Completer(span) /\ ~KronerSpan(span)) =>
             LET spans == Get(cur_line).spans
                 k == span_i + 1
             IN  /\ \A j \in 1..span_i :
                       OpenKronerAt(spans, j, k) =>
                          /\ page_font_prices' =
                                Append(page_font_prices,
                                       [value |-> CompletedValue(spans[j], span),
                                        line_index |-> line_index,
                                        x |-> Get(cur_line).x])
                          /\ current_price_kr' = None
                 /\ \A j \in 1..span_i :
                       CompletedKronerAt(spans, j, k) =>
                          /\ page_font_prices' = page_font_prices
                          /\ current_price_kr' = None]_vars

\* a line of a kroner span, an øre span and a separator has given the one anchor 15.95
C21_Witness ==
    /\ locator = "netto"
    /\ lpc = "returned"
    /\ Len(read_lines) = 1
    /\ LineText(read_lines[1].spans) = <<"15", "95", ".-">>
    /\ KronerSpan(read_lines[1].spans[1])
    /\ Completer(read_lines[1].spans[2])
    /\ page_font_prices = <<[value |-> 1595, line_index |-> 0, x |-> read_lines[1].x]>>

----------------------------------------------------------------------------
(* C22: the 50 pt tier                                                        *)

RemaTakes(span) ==
    /\ locator = "rema"
    /\ ~IsNone(cur_line)
    /\ span_i < Len(Get(cur_line).spans)
    /\ span = Get(cur_line).spans[span_i + 1]
    /\ span_i' = span_i + 1

\* a span below 50 pt leaves the register as it is or empties it
SmallSpanSetsNoRegister ==
    \A span \in NettoSpans :
        (NettoTakes(span) /\ span.size < 500) =>
            /\ current_price_kr' \in {current_price_kr, None}
            /\ current_price_kr_pos' = current_price_kr_pos
            /\ current_price_kr_x' = current_price_kr_x

\* on a line that has had no span of 50 pt or more, no span appends an anchor
NoAnchorWithoutLargeSpan ==
    \A span \in NettoSpans :
        (/\ NettoTakes(span)
         /\ \A j \in 1..(span_i + 1) : Get(cur_line).spans[j].size < 500)
        => page_font_prices' = page_font_prices

\* '.-' right after one to three digits of 50 pt or more appends an anchor
LargeSpanThenSeparatorEmits ==
    \A span \in NettoSpans :
        (/\ NettoTakes(span)
         /\ Strip(span.text) = ".-"
         /\ span_i >= 1
         /\ Get(cur_line).spans[span_i].size >= 500
         /\ ~IsNone(DigitsOf(Strip(Get(cur_line).spans[span_i].text)))
         /\ StrLen(Strip(Get(cur_line).spans[span_i].text)) <= 3)
        => page_font_prices' =
              Append(page_font_prices,
                     [value |-> Get(DigitsOf(Strip(Get(cur_line).spans[span_i].text))) * 100,
                      line_index |-> line_index, x |-> Get(cur_line).x])

\* in the Rema locator a span below 50 pt appends nothing
RemaSmallSpanEmitsNothing ==
    \A span \in RemaSpans :
        (RemaTakes(span) /\ span.size < 500) => page_font_prices' = page_font_prices

\* C22: a span starts a price only at 50 pt or more: in the Netto locator digits at
\* 49.9 pt never set the kroner register, so a line without a span of 50 pt gives no
\* anchor, while one to three digits at 50.0 pt followed by '.-' give one; in the Rema
\* locator no span below 50 pt appends an anchor
C22_PriceStartsAtFiftyPoints ==
    [][/\ SmallSpanSetsNoRegister
       /\ NoAnchorWithoutLargeSpan
       /\ LargeSpanThenSeparatorEmits
       /\ RemaSmallSpanEmitsNothing]_vars

\* the line '15' at 49.9 pt, '.-' has been walked and has given no anchor
C22_Witness ==
    /\ locator = "netto"
    /\ lpc = "returned"
    /\ Len(read_lines) = 1
    /\ read_lines[1].spans = <<[text |-> "15", size |-> 499], [text |-> ".-", size |-> 220]>>
    /\ page_font_prices = <<>>

----------------------------------------------------------------------------
(* C23..C25: one turn of the loop of _find_product_blocks                     *)

\* the loop takes line i, which is not a skip line, while a block is open
TakesLineInOpenBlock ==
    /\ cl_pc = "loop"
    /\ cl_i < Len(cl_lines)
    /\ ~IsSkipLine(cl_lines[cl_i + 1].text)
    /\ ~IsNone(cl_current_block_start)
    /\ cl_i' = cl_i + 1

\* the open block is closed at line i-1 and a block starts at line i
ClosesAndStarts ==
    /\ cl_blocks' = Append(cl_blocks, [start_idx |-> Get(cl_current_block_start),
                                       end_idx |-> cl_i - 1, page |-> 1,
                                       x |-> cl_current_block_x])
    /\ cl_current_block_start' = Some(cl_i)
    /\ cl_current_block_x' = cl_lines[cl_i + 1].x

\* line i stays in the open block
StaysInBlock ==
    UNCHANGED <<cl_blocks, cl_current_block_start, cl_current_block_x>>

\* |x_i - current_x| in hundredths of a point
ColumnDistance == Abs(cl_lines[cl_i + 1].x - cl_current_block_x)

\* line i-1 is a price-anchor line
PreviousIsAnchorLine == cl_i > 0 /\ (cl_i - 1) \in cl_font_price_lines

\* C23: for every non-skip line i reached while a block is open, a distance of 50 or more
\* from current_x closes the block at i-1 and starts one at i with current_x = x_i; with
\* a distance below 50 and no price anchor on line i-1, the line stays in the block
C23_ColumnChangeAtFifty ==
    [][TakesLineInOpenBlock =>
          /\ ColumnDistance >= 5000 => ClosesAndStarts
          /\ (ColumnDistance < 5000 /\ ~PreviousIsAnchorLine) => StaysInBlock]_vars

\* C23, amended: the same for every non-skip line i that is not itself a price-anchor line
C23_Amended ==
    [][(TakesLineInOpenBlock /\ cl_i \notin cl_font_price_lines) =>
          /\ ColumnDistance >= 5000 => ClosesAndStarts
          /\ (ColumnDistance < 5000 /\ ~PreviousIsAnchorLine) => StaysInBlock]_vars

\* lines at 10.0, 59.9 and 60.0 pt without price anchors: the second stays with the
\* first, the third starts a block
C23_Witness ==
    /\ cl_pc = "returned"
    /\ cl_font_price_lines = {}
    /\ cl_lines = <<[text |-> "Cola", x |-> 1000], [text |-> "Cola", x |-> 5990],
                    [text |-> "Cola", x |-> 6000]>>
    /\ cl_blocks = <<[start_idx |-> 0, end_idx |-> 1, page |-> 1, x |-> 1000],
                     [start_idx |-> 2, end_idx |-> 2, page |-> 1, x |-> 6000]>>

\* the loop takes line i, which is not a skip line
TakesLine ==
    /\ cl_pc = "loop"
    /\ cl_i < Len(cl_lines)
    /\ ~IsSkipLine(cl_lines[cl_i + 1].text)
    /\ cl_i' = cl_i + 1

\* C24: for every non-skip line i > 0 whose line i-1 is a price-anchor line, the open
\* block (if one is open) is closed with end_idx = i-1 and a block starts at line i with
\* current_x = x_i, whatever the x of line i
C24_NewBlockAfterAnchorLine ==
    [][(TakesLine /\ PreviousIsAnchorLine) =>
          /\ cl_current_block_start' = Some(cl_i)
          /\ cl_current_block_x' = cl_lines[cl_i + 1].x
          /\ cl_blocks' =
                IF IsNone(cl_current_block_start) THEN cl_blocks
                ELSE Append(cl_blocks, [start_idx |-> Get(cl_current_block_start),
                                        end_idx |-> cl_i - 1, page |-> 1,
                                        x |-> cl_current_block_x])]_vars

\* a price-anchor line at 10.0 pt and a line at 10.0 pt below it: two blocks
C24_Witness ==
    /\ cl_pc = "returned"
    /\ cl_font_price_lines = {0}
    /\ cl_lines = <<[text |-> "Cola", x |-> 1000], [text |-> "Cola", x |-> 1000]>>
    /\ cl_blocks = <<[start_idx |-> 0, end_idx |-> 0, page |-> 1, x |-> 1000],
                     [start_idx |-> 1, end_idx |-> 1, page |-> 1, x |-> 1000]>>

\* C25: in the Netto and the Rema scanner, a non-skip line that is itself a price-anchor
\* line, reached while a block is open and with no price anchor on line i-1, stays in
\* the open block whatever its x
C25_AnchorLineStartsNoBlock ==
    [][(/\ TakesLineInOpenBlock
        /\ cl_i \in cl_font_price_lines
        /\ ~PreviousIsAnchorLine) => StaysInBlock]_vars

----------------------------------------------------------------------------
(* C29: the blocks returned                                                   *)

\* the price-anchor lines of a block
AnchorLinesOf(block) ==
    { a \in block.start_idx..block.end_idx : a \in cl_font_price_lines }

\* C29: every block _find_product_blocks returns has at most one price-anchor line in
\* [start_idx, end_idx], and every line of the block after that line is a skip line
C29_PriceLineEndsItsBlock ==
    cl_pc = "returned" =>
        \A b \in 1..Len(cl_blocks) :
            /\ Cardinality(AnchorLinesOf(cl_blocks[b])) <= 1
            /\ \A a \in AnchorLinesOf(cl_blocks[b]) :
                  \A j \in (a + 1)..cl_blocks[b].end_idx : IsSkipLine(cl_lines[j + 1].text)

----------------------------------------------------------------------------
(* C26: the results of normalize_batch                                       *)

\* the texts of the calls that have the cache key of product_text
SameKeyTexts(product_text) ==
    { input[1] : input \in { n \in NInputs :
                                _get_cache_key(n[1], None) = _get_cache_key(product_text, None) } }
    \cup {product_text}

\* what a normalization of product_text can be: built from a reply of the language model
\* (0.85 in a batch, 0.9 alone or from the cache) or by the rules
NormalizationsOf(product_text) ==
    { ProductOfReply(r, t, conf) : r \in GptReplies, t \in SameKeyTexts(product_text),
                                   conf \in {85, 90} }
    \cup { _normalize_with_rules(t) : t \in SameKeyTexts(product_text) }

\* C26: normalize_batch returns exactly len(products) results and result k is the
\* normalization of products[k], whatever the language model does on a batch
C26_BatchResultsAligned ==
    ncall.op = "batch" =>
        /\ Len(ncall.results) = Len(ncall.texts)
        /\ \A k \in 1..Len(ncall.texts) :
              k <= Len(ncall.results) => ncall.results[k] \in NormalizationsOf(ncall.texts[k])

----------------------------------------------------------------------------
(* C27: the retries of upload_to_api_v2                                       *)

Retryable(o) ==
    \/ o.kind = "response" /\ o.status_code >= 500
    \/ o.kind = "ConnectionError"

FallsBack(o) ==
    \/ o.kind = "response" /\ o.status_code = 404
    \/ o.kind = "Timeout"

\* what the claim says of the POSTs made and of the value returned
UploadAsClaimed ==
    /\ Len(ul_v2_posts) <= ul_max_retries
    /\ Len(ul_v1_posts) <= 1
    /\ \A k \in 1..(Len(ul_v2_posts) - 1) : Retryable(ul_v2_posts[k])
    /\ (ul_pc = "returned" /\ ul_v2_posts # <<>>) =>
          LET last == ul_v2_posts[Len(ul_v2_posts)] IN
          /\ (last.kind = "response" /\ last.status_code = 200)
                => (ul_returned = Some(TRUE) /\ ul_v1_posts = <<>>)
          /\ FallsBack(last)
                => (Len(ul_v1_posts) = 1 /\ ul_returned = Some(AfterV1Post(ul_v1_posts[1])))
          /\ Retryable(last)
                => (/\ Len(ul_v2_posts) = ul_max_retries
                    /\ ul_returned = Some(FALSE) /\ ul_v1_posts = <<>>)
          /\ (~FallsBack(last) /\ ~Retryable(last)
               /\ ~(last.kind = "response" /\ last.status_code = 200))
                => (ul_returned = Some(FALSE) /\ ul_v1_posts = <<>>)

\* C27: upload_to_api_v2 sends at most max_retries POSTs to the v2 endpoint, tries again
\* only after a 5xx response or a connection error, returns True at the first 200 and
\* False at any other response or exception, except that after a 404 or a timeout it
\* makes one v1 upload and returns its result; it returns False after max_retries
\* failed attempts; and it always returns
C27_UploadRetries == []UploadAsClaimed /\ <>(ul_pc = "returned")


----------------------------------------------------------------------------
\* the keys of the cache, oldest insertion first
KeysInOrder(c) == [k \in 1..Len(c) |-> c[k].key]

\* what is left of c after its d oldest entries went
WithoutOldest(c, d) == SubSeq(c, d + 1, Len(c))

\* a normalize call that left the cache as the claim says: the entries that
\* stayed are the newest ones, in their order, and the key of the call is there
NormalizeKeepsNewest ==
    (ncall = NoCall /\ ncall'.op = "normalize") =>
        LET key == _get_cache_key(ncall'.texts[1], ncall'.prices[1])
        IN  /\ key \in CacheKeys(cache')
            /\ \E d \in 0..Len(cache) :
                   \/ cache' = WithoutOldest(cache, d)
                   \/ /\ Len(cache') = Len(cache) - d + 1
                      /\ SubSeq(cache', 1, Len(cache') - 1) = WithoutOldest(cache, d)
                      /\ cache'[Len(cache')].key = key

\* C28: behind a normalizer with caching enabled and max_cache_size = N >= 1 the
\* process-wide cache never holds more than N entries, what is evicted are the
\* oldest insertions, and the key of a normalize call is in the cache when the
\* call returns
C28_CacheBoundedByN ==
    /\ [](~IsNone(normalizer) => Len(cache) <= Get(normalizer).max_cache_size)
    /\ [][NormalizeKeepsNewest]_vars

\* the same, for the instances with max_cache_size >= 2 only
C28_BoundedFromTwo ==
    /\ [](~IsNone(normalizer) /\ Get(normalizer).max_cache_size >= 2
            => Len(cache) <= Get(normalizer).max_cache_size)
    /\ [][NormalizeKeepsNewest]_vars

\* a cache of two entries behind a normalizer with max_cache_size = 1
C28_Overfull ==
    /\ ~IsNone(normalizer)
    /\ Get(normalizer).max_cache_size = 1
    /\ Len(cache) = 2

----------------------------------------------------------------------------
\* an offer whose crop was taken from the page its trace names, or not taken
\* for a reason other than the page
CropOnTracePage(offer) ==
    IsNone(offer.crop) \/
        LET crop_result == Get(offer.crop)
        IN  /\ ~IsNone(crop_result.rendered) =>
                   Get(crop_result.rendered) = PageOfNumber(offer.trace_page)
            /\ crop_result.error # "Page does not exist"

\* C30: with cropping enabled the page handed to crop_and_upload is the page
\* that trace.page names, on every page of the document: no crop comes from
\* another page and none is refused as 'page does not exist'
C30_CropFromTracePage ==
    \A k \in 1..Len(cr_offers) : CropOnTracePage(cr_offers[k])

\* an offer on the last page whose crop was refused
C30_LastPageRefused ==
    \E k \in 1..Len(cr_offers) :
        /\ cr_offers[k].trace_page = cr_len_doc
        /\ ~IsNone(cr_offers[k].crop)
        /\ Get(cr_offers[k].crop).error = "Page does not exist"

\* a crop rendered from the page after the one of the trace
C30_CropFromNextPage ==
    \E k \in 1..Len(cr_offers) :
        /\ ~IsNone(cr_offers[k].crop)
        /\ Get(cr_offers[k].crop).rendered = Some(PageOfNumber(cr_offers[k].trace_page) + 1)
====
